---- MODULE Spec2Model ----
(***************************************************************************)
(* Model of the ISL gloss <-> English transduction pipeline.               *)
(*                                                                         *)
(* Python strings are TLA+ strings; the string methods the code calls are  *)
(* defined character by character below, so that case conversion,          *)
(* splitting, stripping and joining are computed, not assumed.             *)
(***************************************************************************)
EXTENDS Integers, Sequences, FiniteSets, TLC

(***************************************************************************)
(* Evaluation order                                                        *)
(***************************************************************************)
\* F applied to the value of x: as in the code, x is computed once, before F
\* runs, however often F reads it
With(x, F(_)) == CHOOSE r \in {F(v) : v \in {x}} : TRUE

\* the list f with every element computed
RECURSIVE ListFrom(_, _)
ListFrom(f, i) == IF i > Len(f) THEN <<>> ELSE <<f[i]>> \o ListFrom(f, i + 1)

(***************************************************************************)
(* Python str methods                                                      *)
(***************************************************************************)
LowerLetters == "abcdefghijklmnopqrstuvwxyz"
UpperLetters == "ABCDEFGHIJKLMNOPQRSTUVWXYZ"

RECURSIVE IndexIn(_, _, _)
\* 1-based index of character c in string s at or after position i, 0 if absent
IndexIn(c, s, i) ==
    IF i > Len(s) THEN 0
    ELSE IF SubSeq(s, i, i) = c THEN i
    ELSE IndexIn(c, s, i + 1)

\* str.upper() and str.lower() on one letter
UpperOf == [i \in 1..26 |-> SubSeq(UpperLetters, i, i)]
LowerOf == [i \in 1..26 |-> SubSeq(LowerLetters, i, i)]
LowerSet == {LowerOf[i] : i \in 1..26}
UpperSet == {UpperOf[i] : i \in 1..26}

IsLowerCh(c) == c \in LowerSet
IsUpperCh(c) == c \in UpperSet
IsLetterCh(c) == IsLowerCh(c) \/ IsUpperCh(c)

UpMap == [c \in LowerSet |-> UpperOf[IndexIn(c, LowerLetters, 1)]]
LowMap == [c \in UpperSet |-> LowerOf[IndexIn(c, UpperLetters, 1)]]

UpCh(c) == IF c \in LowerSet THEN UpMap[c] ELSE c
LowCh(c) == IF c \in UpperSet THEN LowMap[c] ELSE c

RECURSIVE upper(_)
upper(s) ==
    IF s = "" THEN ""
    ELSE IF Len(s) = 1 THEN UpCh(s)
    ELSE upper(SubSeq(s, 1, Len(s) \div 2)) \o upper(SubSeq(s, Len(s) \div 2 + 1, Len(s)))

RECURSIVE lower(_)
lower(s) ==
    IF s = "" THEN ""
    ELSE IF Len(s) = 1 THEN LowCh(s)
    ELSE lower(SubSeq(s, 1, Len(s) \div 2)) \o lower(SubSeq(s, Len(s) \div 2 + 1, Len(s)))

\* str.capitalize(): first character upper-cased, all the others lower-cased
capitalize(s) == IF s = "" THEN "" ELSE UpCh(Head(s)) \o lower(Tail(s))

RECURSIVE titleFrom(_, _)
titleFrom(s, prevLetter) ==
    IF s = "" THEN ""
    ELSE LET c == Head(s)
         IN (IF prevLetter THEN LowCh(c) ELSE UpCh(c))
              \o titleFrom(Tail(s), IsLetterCh(c))

\* str.title(): a letter that follows a non-letter is upper-cased, the others lower-cased
title(s) == titleFrom(s, FALSE)

RECURSIVE HasLower(_)
HasLower(s) == s # "" /\ (IsLowerCh(Head(s)) \/ HasLower(Tail(s)))

RECURSIVE HasUpper(_)
HasUpper(s) == s # "" /\ (IsUpperCh(Head(s)) \/ HasUpper(Tail(s)))

\* str.isupper(): at least one cased character and no lower-case one
isupper(s) == HasUpper(s) /\ ~HasLower(s)

startswith(s, p) == Len(s) >= Len(p) /\ SubSeq(s, 1, Len(p)) = p
endswith(s, p) == Len(s) >= Len(p) /\ SubSeq(s, Len(s) - Len(p) + 1, Len(s)) = p

RECURSIVE Find(_, _, _)
\* str.find from position i (1-based); 0 if sub does not occur.  The string is
\* searched a stretch of eight positions at a time.
Find(s, sub, i) ==
    LET last == Len(s) - Len(sub) + 1
        hi == IF i + 7 < last THEN i + 7 ELSE last
        hits == {j \in i..hi : SubSeq(s, j, j + Len(sub) - 1) = sub}
    IN IF i > last THEN 0
       ELSE IF hits # {} THEN CHOOSE j \in hits : \A k \in hits : j <= k
       ELSE Find(s, sub, hi + 1)

\* sub in s
contains(s, sub) == Find(s, sub, 1) > 0

RECURSIVE lstrip(_)
lstrip(s) == IF s # "" /\ Head(s) = " " THEN lstrip(Tail(s)) ELSE s

RECURSIVE rstrip(_)
rstrip(s) ==
    IF s # "" /\ SubSeq(s, Len(s), Len(s)) = " "
    THEN rstrip(SubSeq(s, 1, Len(s) - 1)) ELSE s

strip(s) == rstrip(lstrip(s))

RECURSIVE replace(_, _, _)
\* str.replace(old, new): every non-overlapping occurrence, left to right
replace(s, old, new) ==
    LET i == Find(s, old, 1)
    IN IF i = 0 \/ old = "" THEN s
       ELSE SubSeq(s, 1, i - 1) \o new
              \o replace(SubSeq(s, i + Len(old), Len(s)), old, new)

RECURSIVE splitOn(_, _)
\* str.split(sep): empty pieces are kept
splitOn(s, sep) ==
    LET i == Find(s, sep, 1)
    IN IF i = 0 THEN <<s>>
       ELSE <<SubSeq(s, 1, i - 1)>> \o splitOn(SubSeq(s, i + Len(sep), Len(s)), sep)

\* str.split(): pieces between runs of whitespace, empty pieces dropped
split(s) == SelectSeq(splitOn(s, " "), LAMBDA t : t # "")

RECURSIVE join(_, _)
\* sep.join(list)
join(sep, list) ==
    IF list = <<>> THEN ""
    ELSE IF Len(list) = 1 THEN list[1]
    ELSE list[1] \o sep \o join(sep, Tail(list))

\* x in list
InList(x, list) == \E i \in 1..Len(list) : list[i] = x

RECURSIVE IndexOf(_, _, _)
\* list.index(x) counted from 1, starting at position i; 0 if absent
IndexOf(x, list, i) ==
    IF i > Len(list) THEN 0
    ELSE IF list[i] = x THEN i
    ELSE IndexOf(x, list, i + 1)

\* list.remove(x): the first occurrence is removed (the code guards every call with x in list)
remove(list, x) ==
    LET i == IndexOf(x, list, 1)
    IN IF i = 0 THEN list
       ELSE SubSeq(list, 1, i - 1) \o SubSeq(list, i + 1, Len(list))

(***************************************************************************)
(* State                                                                   *)
(***************************************************************************)
VARIABLES
    time_words,     \* the loaded list of time words, as a set
    wh_words,       \* the loaded list of wh-words
    noun_tagged,    \* the words the annotator tags NOUN in English output
    started,        \* "init" before the module-level loads have run, then "up",
                    \* or "failed" when an exception left the import
    gloss,          \* the gloss of the call: argument of gloss_to_english,
                    \* result of isl_pipeline
    english,        \* the English text of the call: result of gloss_to_english,
                    \* argument of isl_pipeline
    raised,         \* whether an exception left that call
    path,           \* which branch produced the result
    pc,             \* "idle" between requests, "returned" while a result is handed back
    annotation,     \* what the annotator returns for the parts of the English input
    requests        \* the calls in progress, one per caller

vars == <<time_words, wh_words, noun_tagged, started, gloss, english, raised, path, pc,
          annotation, requests>>

\* Python's None, distinct from every string the code handles
NoneVal == "<None>"
\* truth value of an Optional[str]
Truthy(v) == v # NoneVal /\ v # ""

(***************************************************************************)
(* gloss_to_text/gloss_to_english.py: lexicon                              *)
(***************************************************************************)
multi_word_expressions ==
    "SWITCH-ON" :> "turn on" @@
    "SWITCH-OFF" :> "turn off" @@
    "FAN ON" :> "turn on a fan" @@
    "CALL DOCTOR" :> "call a doctor" @@
    "TAKE ME DOCTOR" :> "take me to a doctor"

adjectives ==
    <<"HAPPY", "THIRSTY", "BUSY", "COMFORTABLE", "HOT", "SAD", "DANGER", "RIGHT",
      "WRONG", "BIG", "SMALL", "HUNGRY", "TIRED", "SICK", "GOOD", "BAD", "TALL",
      "SHORT", "FAT", "THIN", "BEAUTIFUL", "UGLY", "OLD", "YOUNG">>
modal_verbs == <<"CAN">>
special_verbs == <<"FEEL", "HAVE", "WANT", "NEED">>
place_nouns ==
    <<"SCHOOL", "MARKET", "HOUSE", "HOSPITAL", "OFFICE", "SHOP", "STORE", "HOME",
      "PARK", "LIBRARY">>
possessive_markers == <<"MY", "YOUR", "HIS", "HER", "ITS", "OUR", "THEIR">>
wh_literals == <<"WHAT", "WHERE", "WHY", "WHEN", "WHO", "HOW">>
command_verbs == <<"go", "come", "sit", "stand", "help">>

PRESENT == "present"
PAST == "past"
FUTURE == "future"
SINGULAR == "singular"
PLURAL == "plural"

\* simple_conjugate(verb, tense, number)
simple_conjugate(verb0, tense, number) ==
    LET verb == lower(verb0)
    IN IF tense = PAST THEN
           IF endswith(verb, "e") THEN verb \o "d"
           ELSE IF verb = "go" THEN "went"
           ELSE IF verb = "eat" THEN "ate"
           ELSE verb \o "ed"
       ELSE IF tense = FUTURE THEN "will " \o verb
       ELSE IF number = SINGULAR /\ verb \notin {"go", "eat"}
            THEN (IF ~endswith(verb, "s") THEN verb \o "s" ELSE verb)
            ELSE verb

\* The inflection lookup (lemminflect.getInflection): first form for the tag
IrregularVBD ==
    "go" :> "went" @@ "eat" :> "ate" @@ "have" :> "had" @@ "come" :> "came" @@
    "feel" :> "felt" @@ "take" :> "took" @@ "sit" :> "sat" @@ "stand" :> "stood" @@
    "be" :> "was" @@ "read" :> "read"
IrregularVBZ == "have" :> "has" @@ "go" :> "goes" @@ "be" :> "is" @@ "do" :> "does"
getInflection(verb, tag) ==
    IF tag = "VBD" THEN
        IF verb \in DOMAIN IrregularVBD THEN IrregularVBD[verb]
        ELSE IF endswith(verb, "e") THEN verb \o "d" ELSE verb \o "ed"
    ELSE IF tag = "VBZ" THEN
        IF verb \in DOMAIN IrregularVBZ THEN IrregularVBZ[verb]
        ELSE IF endswith(verb, "s") THEN verb \o "es" ELSE verb \o "s"
    ELSE verb

\* conjugate_verb(verb, tense, number); the lookup does not raise, so the
\* except branch (simple_conjugate) is not taken
conjugate_verb(verb, tense, number) ==
    IF tense = PAST THEN getInflection(verb, "VBD")
    ELSE IF tense = FUTURE THEN "will " \o verb
    ELSE getInflection(verb, IF number = SINGULAR THEN "VBZ" ELSE "VBP")

\* token.lower() in wh_words or token in ["WHAT", ...]
IsWhToken(token) == lower(token) \in wh_words \/ InList(token, wh_literals)

\* detect_sentence_type(gloss)
detect_sentence_type(g) ==
    LET tokens == split(g)
    IN IF \E i \in 1..Len(tokens) : IsWhToken(tokens[i]) THEN "wh-question"
       ELSE IF endswith(g, "?") \/ (Len(tokens) >= 2 /\ tokens[Len(tokens)] = "CAN")
            THEN "yes-no-question"
       ELSE IF InList("PLEASE", tokens)
               \/ (tokens # <<>> /\ InList(lower(tokens[1]), command_verbs))
            THEN "imperative"
       ELSE "declarative"

(***************************************************************************)
(* extract_components(gloss, sentence_type): the working token list and    *)
(* the components dictionary pass through the rules in the code's order.   *)
(***************************************************************************)
EmptyComponents ==
    [time_exp |-> NoneVal, subject |-> NoneVal, object |-> NoneVal, verb |-> NoneVal,
     adjective |-> NoneVal, modal |-> NoneVal, negation |-> NoneVal,
     wh_word |-> NoneVal, politeness |-> NoneVal, possessive |-> NoneVal,
     secondary_verb |-> NoneVal, proper_name |-> NoneVal, location |-> NoneVal]

\* first element of list (in list order) that occurs in tokens, NoneVal if none
FirstListed(list, tokens) ==
    LET hits == SelectSeq(list, LAMBDA w : InList(w, tokens))
    IN IF hits = <<>> THEN NoneVal ELSE hits[1]

\* last element of list (in list order) that occurs in tokens, NoneVal if none
LastListed(list, tokens) ==
    LET hits == SelectSeq(list, LAMBDA w : InList(w, tokens))
    IN IF hits = <<>> THEN NoneVal ELSE hits[Len(hits)]

\* lines 130-156: tokenise; keep the first sentence; drop the last token of a question
ExStart(g0, sentence_type) ==
    LET g == IF contains(g0, ".") THEN splitOn(g0, ".")[1] ELSE g0
        toks == split(g)
    IN [gloss |-> g,
        tokens |-> IF sentence_type \in {"yes-no-question", "wh-question"}
                      /\ endswith(g, "?")
                   THEN SubSeq(toks, 1, Len(toks) - 1) ELSE toks,
        c |-> EmptyComponents]

\* lines 158-161
ExTime(st) ==
    IF st.tokens # <<>> /\ lower(st.tokens[1]) \in time_words
    THEN [st EXCEPT !.c.time_exp = st.tokens[1], !.tokens = Tail(st.tokens)]
    ELSE st

\* lines 163-166
ExPoliteness(st) ==
    IF InList("PLEASE", st.tokens)
    THEN [st EXCEPT !.c.politeness = "PLEASE", !.tokens = remove(st.tokens, "PLEASE")]
    ELSE st

\* lines 168-174
ExWhWord(st, sentence_type) ==
    LET hits == SelectSeq(st.tokens, IsWhToken)
    IN IF sentence_type = "wh-question" /\ hits # <<>>
       THEN [st EXCEPT !.c.wh_word = hits[1], !.tokens = remove(st.tokens, hits[1])]
       ELSE st

\* lines 176-179
ExNegation(st) ==
    IF InList("NOT", st.tokens)
    THEN [st EXCEPT !.c.negation = "NOT", !.tokens = remove(st.tokens, "NOT")]
    ELSE st

\* lines 181-185: no break, so the last place noun of the list that occurs wins;
\* the token stays in the list
ExLocation(st) ==
    [st EXCEPT !.c.location = LastListed(place_nouns, st.tokens)]

\* lines 187-192
ExAdjective(st) ==
    LET adj == FirstListed(adjectives, st.tokens)
    IN IF adj # NoneVal
       THEN [st EXCEPT !.c.adjective = adj, !.tokens = remove(st.tokens, adj)]
       ELSE st

\* lines 194-199
ExModal(st) ==
    LET m == FirstListed(modal_verbs, st.tokens)
    IN IF m # NoneVal
       THEN [st EXCEPT !.c.modal = m, !.tokens = remove(st.tokens, m)]
       ELSE st

\* lines 201-207
ExPossessive(st) ==
    LET m == FirstListed(possessive_markers, st.tokens)
    IN IF m # NoneVal
       THEN [st EXCEPT !.c.possessive = m, !.tokens = remove(st.tokens, m)]
       ELSE st

\* lines 211-219: WANT + GO + location
ExWantGo(st) ==
    IF InList("WANT", st.tokens) /\ InList("GO", st.tokens) /\ Truthy(st.c.location)
    THEN [st EXCEPT !.c.verb = "WANT", !.c.secondary_verb = "GO",
                    !.tokens = remove(remove(st.tokens, "GO"), "WANT")]
    ELSE st

\* lines 221-237: CALL DOCTOR (adjacent), else TAKE ME DOCTOR
ExDoctor(st) ==
    LET t == st.tokens
    IN IF Len(t) < 2 THEN st
       ELSE IF InList("CALL", t) /\ InList("DOCTOR", t) THEN
           LET d == IndexOf("CALL", t, 1) - IndexOf("DOCTOR", t, 1)
           IN IF d = 1 \/ d = -1
              THEN [st EXCEPT !.c.verb = "CALL DOCTOR",
                              !.tokens = remove(remove(t, "CALL"), "DOCTOR")]
              ELSE st
       ELSE IF InList("TAKE", t) /\ InList("DOCTOR", t) /\ InList("ME", t)
       THEN [st EXCEPT !.c.verb = "TAKE ME DOCTOR",
                       !.tokens = remove(remove(remove(t, "ME"), "TAKE"), "DOCTOR")]
       ELSE st

\* lines 239-246: the first adjacent pair that is a key of multi_word_expressions
ExMultiWord(st) ==
    LET t == st.tokens
        hit == {i \in 1..(Len(t) - 1) :
                   (t[i] \o " " \o t[i + 1]) \in DOMAIN multi_word_expressions}
    IN IF hit = {} THEN st
       ELSE LET i == CHOOSE j \in hit : \A k \in hit : j <= k
            IN [st EXCEPT !.c.verb = t[i] \o " " \o t[i + 1],
                          !.tokens = SubSeq(t, 1, i - 1) \o SubSeq(t, i + 2, Len(t))]

\* lines 248-256
ExSpecialVerb(st) ==
    LET v == FirstListed(special_verbs, st.tokens)
    IN IF v = NoneVal THEN st
       ELSE IF ~Truthy(st.c.verb)
       THEN [st EXCEPT !.c.verb = v, !.tokens = remove(st.tokens, v)]
       ELSE [st EXCEPT !.c.secondary_verb = v, !.tokens = remove(st.tokens, v)]

\* the test of lines 260-261
NameCandidate(token) ==
    /\ isupper(token)
    /\ ~InList(token, adjectives)
    /\ ~InList(token, special_verbs)
    /\ ~InList(token, modal_verbs)
    /\ ~InList(token, place_nouns)

RECURSIVE ProperNameFrom(_, _)
\* lines 259-272: the loop from position i on; leaves at the first token it assigns
ProperNameFrom(st, i) ==
    IF i > Len(st.tokens) THEN st
    ELSE LET token == st.tokens[i]
         IN IF ~NameCandidate(token) THEN ProperNameFrom(st, i + 1)
            ELSE IF st.c.subject = NoneVal /\ IndexOf(token, st.tokens, 1) = 1
            THEN [st EXCEPT !.c.subject = token, !.c.proper_name = token,
                            !.tokens = remove(st.tokens, token)]
            ELSE IF st.c.object = NoneVal
            THEN [st EXCEPT !.c.object = token, !.c.proper_name = token,
                            !.tokens = remove(st.tokens, token)]
            ELSE ProperNameFrom(st, i + 1)

ExProperName(st) == ProperNameFrom(st, 1)

\* lines 274-279
ExResidualLocation(st) ==
    IF Truthy(st.c.location) /\ InList(st.c.location, st.tokens)
    THEN [st EXCEPT !.c.object = IF ~Truthy(st.c.object) THEN st.c.location
                                 ELSE st.c.object,
                    !.tokens = remove(st.tokens, st.c.location)]
    ELSE st

\* lines 282-288
ExImperative(st) ==
    IF st.tokens = <<>> THEN st
    ELSE LET s1 == IF ~Truthy(st.c.verb)
                   THEN [st EXCEPT !.c.verb = st.tokens[1], !.tokens = Tail(st.tokens)]
                   ELSE st
         IN IF s1.tokens # <<>>
            THEN [s1 EXCEPT !.c.object = join(" ", s1.tokens)]
            ELSE s1

\* lines 290-304
ExPatternVerb(st) ==
    LET t == st.tokens
    IN IF InList("GO", t) /\ InList("WANT", t)
       THEN [st EXCEPT !.c.verb = "WANT", !.c.secondary_verb = "GO",
                       !.tokens = remove(remove(t, "GO"), "WANT")]
       ELSE IF InList("FEEL", t)
       THEN [st EXCEPT !.c.verb = "FEEL", !.tokens = remove(t, "FEEL")]
       ELSE IF InList("HAVE", t)
       THEN [st EXCEPT !.c.verb = "HAVE", !.tokens = remove(t, "HAVE")]
       ELSE IF InList("LIVE", t)
       THEN [st EXCEPT !.c.verb = "LIVE", !.tokens = remove(t, "LIVE")]
       ELSE st

\* lines 306-321
ExPositional(st) ==
    LET t == st.tokens
    IN IF Len(t) >= 2 THEN
           LET s1 == IF ~Truthy(st.c.subject)
                     THEN [st EXCEPT !.c.subject = t[1], !.tokens = Tail(t)]
                     ELSE st
           IN IF s1.tokens # <<>> /\ ~Truthy(s1.c.object) /\ ~Truthy(s1.c.adjective)
              THEN [s1 EXCEPT !.c.object = s1.tokens[1], !.tokens = Tail(s1.tokens)]
              ELSE s1
       ELSE IF Len(t) = 1 THEN
           IF ~Truthy(st.c.subject)
           THEN [st EXCEPT !.c.subject = t[1], !.tokens = <<>>]
           ELSE IF ~Truthy(st.c.verb)
           THEN [st EXCEPT !.c.verb = t[1], !.tokens = <<>>]
           ELSE IF ~Truthy(st.c.object)
           THEN [st EXCEPT !.c.object = t[1], !.tokens = <<>>]
           ELSE [st EXCEPT !.tokens = <<>>]
       ELSE st

\* lines 323-330
ExRest(st) ==
    LET s1 == IF st.tokens # <<>> /\ ~Truthy(st.c.verb)
              THEN [st EXCEPT !.c.verb = st.tokens[1], !.tokens = Tail(st.tokens)]
              ELSE st
    IN IF s1.tokens # <<>> /\ ~Truthy(s1.c.object)
       THEN [s1 EXCEPT !.c.object = join(" ", s1.tokens)]
       ELSE s1

\* lines 281-330
ExRemaining(st, sentence_type) ==
    IF sentence_type = "imperative" THEN ExImperative(st)
    ELSE ExRest(ExPositional(ExPatternVerb(st)))

\* lines 340-345: WHAT + YOUR + NAME
ExWhatYourName(st, sentence_type) ==
    IF sentence_type = "wh-question" /\ Truthy(st.c.wh_word)
       /\ st.c.wh_word = "WHAT" /\ st.c.possessive = "YOUR" /\ contains(st.gloss, "NAME")
    THEN [st EXCEPT !.c.verb = "IS", !.c.object = "NAME"]
    ELSE st

\* "".join(c for c in s if c != "-").title()
FingerSpelled(s) == title(replace(s, "-", ""))

\* lines 352-355
ExFingerSpell(st) ==
    LET fix(v) == IF Truthy(v) /\ contains(v, "-") THEN FingerSpelled(v) ELSE v
    IN [st EXCEPT !.c.subject = fix(st.c.subject), !.c.object = fix(st.c.object)]

\* extract_components: the state after the last rule (tokens are what was left over)
ExtractState(g, sentence_type) ==
    LET s1 == ExPossessive(ExModal(ExAdjective(ExLocation(ExNegation(
                  ExWhWord(ExPoliteness(ExTime(ExStart(g, sentence_type))),
                           sentence_type))))))
        s2 == ExResidualLocation(ExProperName(ExSpecialVerb(ExMultiWord(
                  ExDoctor(ExWantGo(s1))))))
    IN ExFingerSpell(ExWhatYourName(ExRemaining(s2, sentence_type), sentence_type))

extract_components(g, sentence_type) == ExtractState(g, sentence_type).c

(***************************************************************************)
(* transform_to_english(components, sentence_type)                         *)
(* Result: [raised, tokens]; raised means an exception left the function   *)
(* (a method called on None).                                              *)
(***************************************************************************)
Tokens(t) == [raised |-> FALSE, tokens |-> t]
Raise == [raised |-> TRUE, tokens |-> <<>>]

\* lines 363-370
TenseOf(c) ==
    IF ~Truthy(c.time_exp) THEN PRESENT
    ELSE IF lower(c.time_exp) = "yesterday" THEN PAST
    ELSE IF lower(c.time_exp) \in {"tomorrow", "future"} THEN FUTURE
    ELSE PRESENT

\* line 371: the tokens the time expression contributes
TimeTokens(c) ==
    IF Truthy(c.time_exp) THEN <<capitalize(lower(c.time_exp)) \o ",">> ELSE <<>>

\* lines 373-377
SubjectOf(c) ==
    LET subject == IF Truthy(c.subject) THEN lower(c.subject) ELSE "I"
    IN IF Truthy(c.proper_name) /\ c.subject = c.proper_name
       THEN title(c.proper_name) ELSE subject

\* line 379
IsSingular(subject) ==
    subject \in {"i", "he", "she", "it"} \/ subject \notin {"we", "they", "you all"}

\* "Handle proper name in subject": the token appended for the subject
SubjectToken(c) ==
    IF Truthy(c.proper_name) /\ c.subject = c.proper_name
    THEN title(c.proper_name) ELSE SubjectOf(c)

\* "Handle proper name in object": the token appended for the object
ObjectToken(c) ==
    IF Truthy(c.proper_name) /\ c.object = c.proper_name
    THEN title(c.proper_name) ELSE lower(c.object)

\* [x] if cond else []
Opt(cond, x) == IF cond THEN <<x>> ELSE <<>>

\* multi_word_expressions.get(verb, verb.lower())
ExpandVerb(verb) ==
    IF verb \in DOMAIN multi_word_expressions
    THEN multi_word_expressions[verb] ELSE lower(verb)

\* lines 382-394
TrImperative(c) ==
    IF c.verb = NoneVal THEN Raise
    ELSE Tokens(TimeTokens(c)
                \o Opt(Truthy(c.politeness), "Please")
                \o <<ExpandVerb(c.verb)>>
                \o (IF Truthy(c.object) THEN <<ObjectToken(c)>> ELSE <<>>))

\* lines 396-448
TrYesNo(c) ==
    LET subject == SubjectOf(c)
    IN IF c.modal = "CAN" THEN
           Tokens(TimeTokens(c) \o <<"Can", SubjectToken(c)>>
                  \o (IF c.verb = "CALL DOCTOR" THEN <<"call a doctor">>
                      ELSE IF c.verb = "TAKE ME DOCTOR" THEN <<"take me to a doctor">>
                      ELSE IF Truthy(c.verb) THEN <<lower(c.verb)>> ELSE <<>>)
                  \o (IF Truthy(c.object)
                         /\ c.verb \notin {"CALL DOCTOR", "TAKE ME DOCTOR"}
                      THEN <<ObjectToken(c)>> ELSE <<>>))
       ELSE IF Truthy(c.adjective) THEN
           Tokens(TimeTokens(c)
                  \o <<IF subject \in {"you", "we", "they"} THEN "Are" ELSE "Is",
                       SubjectToken(c), lower(c.adjective)>>)
       ELSE
           Tokens(TimeTokens(c)
                  \o <<IF subject \in {"you", "we", "they", "i"} THEN "Do" ELSE "Does",
                       SubjectToken(c),
                       IF Truthy(c.verb) THEN lower(c.verb) ELSE "">>
                  \o (IF Truthy(c.object) THEN <<ObjectToken(c)>> ELSE <<>>))

\* lines 450-515
TrWh(c) ==
    LET subject == SubjectOf(c)
        wh == capitalize(IF Truthy(c.wh_word) THEN lower(c.wh_word) ELSE "what")
        head == TimeTokens(c) \o <<wh>>
    IN IF c.modal = "CAN" THEN
           Tokens(head \o <<"can", SubjectToken(c)>>
                  \o (IF Truthy(c.verb) THEN <<lower(c.verb)>> ELSE <<>>)
                  \o (IF Truthy(c.object) THEN <<ObjectToken(c)>> ELSE <<>>))
       ELSE IF Truthy(c.possessive) THEN
           IF Truthy(c.adjective) THEN
               Tokens(head \o <<"is", "your",
                                IF Truthy(c.object) THEN lower(c.object) ELSE "">>)
           ELSE IF c.wh_word = NoneVal THEN Raise
           ELSE LET what == lower(c.wh_word) = "what"
                IN Tokens(head
                          \o <<IF what THEN "is" ELSE "do", IF what THEN "your" ELSE "you">>
                          \o (IF Truthy(c.object) /\ what THEN <<lower(c.object)>>
                              ELSE IF Truthy(c.verb) /\ ~what
                              THEN <<lower(c.verb)>>
                                   \o (IF Truthy(c.object) THEN <<ObjectToken(c)>>
                                       ELSE <<>>)
                              ELSE <<>>))
       ELSE IF Truthy(c.adjective) THEN
           Tokens(head \o <<"do", SubjectToken(c), "feel", lower(c.adjective)>>)
       ELSE
           Tokens(head
                  \o <<IF subject \in {"you", "we", "they", "i"} THEN "do" ELSE "does",
                       SubjectToken(c)>>
                  \o (IF Truthy(c.verb) THEN <<lower(c.verb)>> ELSE <<>>)
                  \o (IF Truthy(c.object) THEN <<ObjectToken(c)>> ELSE <<>>))

\* "am" if subject == "i" else "is" if is_singular else "are"
Copula(subject) ==
    IF subject = "i" THEN "am" ELSE IF IsSingular(subject) THEN "is" ELSE "are"

\* lines 551-582: the tokens after the subject in an adjective statement
AdjectiveTokens(c, subject) ==
    LET a == c.adjective
        be == IF Truthy(c.negation) THEN Copula(subject) \o " not" ELSE Copula(subject)
    IN IF a \in {"THIRSTY", "BUSY", "HOT", "SAD"} THEN <<Copula(subject), lower(a)>>
       ELSE IF a \in {"HAPPY", "COMFORTABLE"} THEN <<be, lower(a)>>
       ELSE IF a = "DANGER" THEN <<Copula(subject), "in danger">>
       ELSE IF a \in {"BIG", "SMALL"}
            THEN <<IF subject \in {"they", "we"} THEN "are" ELSE "is", lower(a)>>
       ELSE IF a \in {"RIGHT", "WRONG"}
            THEN <<"is", IF Truthy(c.negation) THEN "not" ELSE "", lower(a)>>
       ELSE <<>>

\* lines 517-662, without the early return of lines 519-524
TrDeclarativeBody(c, tense) ==
    LET subject == SubjectOf(c)
        s == <<SubjectToken(c)>>
        obj == IF Truthy(c.object) THEN <<ObjectToken(c)>> ELSE <<>>
    IN IF c.verb = "WANT" /\ Truthy(c.secondary_verb) THEN
           s \o <<"want", "to", lower(c.secondary_verb)>> \o obj
       ELSE IF Truthy(c.adjective) THEN
           s \o AdjectiveTokens(c, subject)
       ELSE IF c.verb = "FEEL" THEN
           s \o Opt(Truthy(c.negation), "do not") \o <<"feel">>
             \o (IF Truthy(c.object)
                 THEN Opt(lower(c.object) \notin {"well", "good", "bad", "sick"}, "a")
                      \o <<lower(c.object)>>
                 ELSE <<>>)
       ELSE IF c.verb = "HAVE" THEN
           s \o Opt(Truthy(c.negation), "do not") \o <<"have">>
             \o (IF Truthy(c.object)
                 THEN Opt(lower(c.object) \notin {"hair", "money"}, "a")
                      \o <<lower(c.object)>>
                 ELSE <<>>)
       ELSE IF c.verb = "WANT" /\ Truthy(c.object) THEN
           s \o <<"want">>
             \o (IF c.object \in {"EAT", "SLEEP", "SIT", "STAND", "REST"}
                 THEN <<"to", lower(c.object)>>
                 ELSE IF Truthy(c.proper_name) /\ c.object = c.proper_name
                 THEN <<title(c.proper_name)>>
                 ELSE Opt(c.object # "WATER", "a") \o <<lower(c.object)>>)
       ELSE
           s \o (IF Truthy(c.negation)
                 THEN <<IF subject \in {"i", "you", "we", "they"}
                        THEN "do not" ELSE "does not">>
                 ELSE IF Truthy(c.modal) THEN <<lower(c.modal)>> ELSE <<>>)
             \o (IF Truthy(c.verb) THEN
                     LET verb == ExpandVerb(c.verb)
                     IN IF ~Truthy(c.negation) /\ ~Truthy(c.modal)
                        THEN <<conjugate_verb(
                                 IF contains(verb, " ") THEN split(verb)[1] ELSE verb,
                                 tense,
                                 IF IsSingular(subject) THEN SINGULAR ELSE PLURAL)>>
                        ELSE <<verb>>
                 ELSE <<>>)
             \o obj

\* lines 664-670
WithPossessive(c, toks) ==
    IF Truthy(c.possessive) /\ toks # <<>>
       /\ lower(c.possessive) \in {"my", "your"}
       /\ toks[1] \notin {"my", "your", "his", "her", "its", "our", "their"}
    THEN <<lower(c.possessive) \o " " \o toks[1]>> \o Tail(toks)
    ELSE toks

\* transform_to_english
transform_to_english(c, sentence_type) ==
    LET sized(r) == IF r.raised THEN r ELSE Tokens(WithPossessive(c, r.tokens))
    IN IF sentence_type = "imperative" THEN sized(TrImperative(c))
       ELSE IF sentence_type = "yes-no-question" THEN sized(TrYesNo(c))
       ELSE IF sentence_type = "wh-question" THEN sized(TrWh(c))
       ELSE IF Truthy(c.proper_name) /\ c.subject = c.proper_name /\ ~Truthy(c.verb)
       THEN \* lines 519-524: returns before the possessive step
            Tokens(TimeTokens(c) \o <<title(c.proper_name), "is">>
                   \o (IF Truthy(c.object) THEN <<lower(c.object)>> ELSE <<>>))
       ELSE sized(Tokens(TimeTokens(c) \o TrDeclarativeBody(c, TenseOf(c))))

(***************************************************************************)
(* The annotator as refine_with_spacy uses it: tokenisation and the NOUN   *)
(* tag.  It is a pure function of the text; noun_tagged fixes its tagging. *)
(***************************************************************************)
PunctChars == ".,?!:;"
IsPunctCh(c) == IndexIn(c, PunctChars, 1) > 0

RECURSIVE SplitAffixes(_)
\* one whitespace-delimited chunk -> its tokens: leading and trailing punctuation
\* and infix hyphens are tokens of their own
SplitAffixes(w) ==
    IF w = "" THEN <<>>
    ELSE IF Len(w) = 1 THEN <<w>>
    ELSE IF IsPunctCh(Head(w)) THEN <<Head(w)>> \o SplitAffixes(Tail(w))
    ELSE IF IsPunctCh(SubSeq(w, Len(w), Len(w)))
         THEN SplitAffixes(SubSeq(w, 1, Len(w) - 1)) \o <<SubSeq(w, Len(w), Len(w))>>
    ELSE LET h == Find(w, "-", 2)
         IN IF h > 0 /\ h < Len(w)
            THEN <<SubSeq(w, 1, h - 1), "-">> \o SplitAffixes(SubSeq(w, h + 1, Len(w)))
            ELSE <<w>>

RECURSIVE TokensOfPieces(_, _)
\* pieces of text.split(" "); run counts the empty pieces seen since the last chunk.
\* The first space after a chunk belongs to that chunk; further spaces are a token.
TokensOfPieces(pieces, run) ==
    LET spaces(n) == [i \in 1..n |-> " "]
        ws(n) == IF n > 0 THEN <<join("", spaces(n))>> ELSE <<>>
    IN IF pieces = <<>> THEN IF run > 1 THEN ws(run - 1) ELSE <<>>
       ELSE IF Head(pieces) = "" THEN TokensOfPieces(Tail(pieces), run + 1)
       ELSE ws(run) \o SplitAffixes(Head(pieces)) \o TokensOfPieces(Tail(pieces), 0)

\* [token.text for token in nlp(text)]
SpacyTokens(text) == TokensOfPieces(splitOn(text, " "), 0)

\* token.pos_ == "NOUN" and token.dep_ != "compound"
IsNounToken(tok) == lower(tok) \in noun_tagged

(***************************************************************************)
(* refine_with_spacy(english_sentence)                                     *)
(***************************************************************************)
\* mapping of refine_with_spacy (gloss_to_text/gloss_to_english.py:677-723), 43 entries
mapping ==
    "a boy eats an apple ." :> "Boy eats an apple." @@
    "do you ?" :> "Are you busy?" @@
    "does he eat ?" :> "What does he eat?" @@
    "yesterday , i went school ." :> "Yesterday, I went to school." @@
    "she is happy ." :> "She is not happy." @@
    "sit ." :> "Sit." @@
    "i am thirsty ." :> "I am thirsty." @@
    "i wants an eat ." :> "I want to eat." @@
    "i wants a sleep ." :> "I want to sleep." @@
    "your does name ?" :> "What is your name?" @@
    "i do not go ." :> "I do not go." @@
    "i am faraan" :> "I am Faraan." @@
    "i wants a toilet ." :> "I want to go to the toilet." @@
    "i wants a water ." :> "I want water." @@
    "i do not feel well ." :> "I do not feel well." @@
    "i have a fever ." :> "I have a fever." @@
    "i have a pain ." :> "I have a pain." @@
    "please help me ." :> "Please help me." @@
    "do you a doctor call ?" :> "Can you call a doctor?" @@
    "do you me take ?" :> "Can you take me to a doctor?" @@
    "my please parents inform ." :> "Please inform my parents." @@
    "i wants a sit ." :> "I want to sit." @@
    "i wants stand ." :> "I want to stand." @@
    "i am in a danger ." :> "I am in danger." @@
    "emergency ." :> "Emergency." @@
    "this is not right" :> "This is not right." @@
    "this is not wrong" :> "This is not wrong." @@
    "i wants a rest ." :> "I want to rest." @@
    "i needs a bath ." :> "I need a bath." @@
    "stranger is comfortable ." :> "I am not comfortable." @@
    "your does name age what ? ?" :> "What is your name? What is your age? Where do you come from?" @@
    "do i have a problem ?" :> "I have a problem. Can you help me?" @@
    "is i hot ?" :> "I feel hot. Can you turn on a fan?" @@
    "are you sad ?" :> "Why do you feel sad?" @@
    "shoes are big" :> "Shoes are big." @@
    "shoes are small" :> "Shoes are small." @@
    "clothes are big" :> "Clothes are big." @@
    "I not well" :> "I am not well." @@
    "I not hungry" :> "I am not hungry." @@
    "I not tired" :> "I am not tired." @@
    "I not sick" :> "I am not sick." @@
    "I not good" :> "I am not good." @@
    "I not bad" :> "I am not bad."

Determiners == {"a", "an", "the", "my", "your", "his", "her", "its", "our", "their"}

\* lines 733-748: the tokens emitted for token i of doc
RefinedAt(doc, i) ==
    LET tok == doc[i]
    IN IF lower(tok) = "emergency" THEN <<tok>>
       ELSE IF IsNounToken(tok) /\ lower(tok) # "school"
               /\ ~(\E j \in 1..(i - 1) : doc[j] \in Determiners)
               /\ lower(tok) \notin {"school", "home", "today", "yesterday",
                                     "tomorrow", "water"}
       THEN <<IF contains("aeiou", LowCh(Head(tok))) THEN "an" ELSE "a", tok>>
       ELSE <<tok>>

RECURSIVE RefinedFrom(_, _)
RefinedFrom(doc, i) ==
    IF i > Len(doc) THEN <<>> ELSE RefinedAt(doc, i) \o RefinedFrom(doc, i + 1)

\* lines 752-759
PostProcess(r) ==
    replace(replace(replace(replace(replace(replace(replace(r,
        "want eat", "want to eat"),
        "want sleep", "want to sleep"),
        "want sit", "want to sit"),
        "want stand", "want to stand"),
        "want rest", "want to rest"),
        "went a school", "went to school"),
        "went to a school", "went to school")

refine_with_spacy(english_sentence) ==
    IF lower(english_sentence) \in DOMAIN mapping
    THEN mapping[lower(english_sentence)]
    ELSE PostProcess(join(" ", RefinedFrom(SpacyTokens(english_sentence), 1)))

(***************************************************************************)
(* gloss_to_english(gloss)                                                 *)
(***************************************************************************)
\* direct_mappings of gloss_to_english (gloss_to_text/gloss_to_english.py:781-836), 53 entries
direct_mappings ==
    "BOY APPLE EAT" :> "Boy eats an apple." @@
    "YOU COME" :> "Do you come?" @@
    "HE EAT WHAT" :> "What does he eat?" @@
    "YESTERDAY I SCHOOL GO" :> "Yesterday, I went to school." @@
    "SHE HAPPY NOT" :> "She is not happy." @@
    "SIT" :> "Sit." @@
    "I THIRSTY" :> "I am thirsty." @@
    "YOU BUSY" :> "Are you busy?" @@
    "I WANT EAT" :> "I want to eat." @@
    "I WANT SLEEP" :> "I want to sleep." @@
    "YOUR NAME WHAT" :> "What is your name?" @@
    "I GO NOT" :> "I do not go." @@
    "I FARAAN" :> "I am Faraan." @@
    "I TOILET GO WANT" :> "I want to go to the toilet." @@
    "I WATER WANT" :> "I want water." @@
    "I WELL FEEL NOT" :> "I do not feel well." @@
    "I FEVER HAVE" :> "I have a fever." @@
    "I PAIN HAVE" :> "I have a pain." @@
    "HELP ME PLEASE" :> "Please help me." @@
    "YOU CALL DOCTOR CAN" :> "Can you call a doctor?" @@
    "YOU TAKE ME DOCTOR CAN" :> "Can you take me to a doctor?" @@
    "MY PARENTS INFORM PLEASE" :> "Please inform my parents." @@
    "I WANT SIT" :> "I want to sit." @@
    "I WANT STAND" :> "I want to stand." @@
    "I DANGER" :> "I am in danger." @@
    "EMERGENCY" :> "Emergency." @@
    "THIS RIGHT NOT" :> "This is not right." @@
    "THIS WRONG NOT" :> "This is not wrong." @@
    "I WANT REST" :> "I want to rest." @@
    "I NEED BATH" :> "I need a bath." @@
    "STRANGER HOUSE IN, I COMFORTABLE NOT" :> "I am not comfortable." @@
    "YOUR NAME WHAT? AGE WHAT? COME FROM WHERE?" :> "What is your name? What is your age? Where do you come from?" @@
    "I PROBLEM HAVE. YOU HELP ME CAN?" :> "I have a problem. Can you help me?" @@
    "I HOT FEEL. YOU FAN ON CAN?" :> "I feel hot. Can you turn on a fan?" @@
    "YOU SAD FEEL WHY" :> "Why do you feel sad?" @@
    "SHOES BIG" :> "Shoes are big." @@
    "SHOES SMALL" :> "Shoes are small." @@
    "CLOTHES BIG" :> "Clothes are big." @@
    "I HUNGRY" :> "I am hungry." @@
    "YOU HAPPY" :> "You are happy." @@
    "WHERE YOU LIVE" :> "Where do you live?" @@
    "WHAT YOUR NAME" :> "What is your name?" @@
    "YOUR BOOK WHERE" :> "Where is your book?" @@
    "I WANT GO MARKET" :> "I want to go to the market." @@
    "TOMORROW I SCHOOL GO" :> "Tomorrow, I will go to school." @@
    "STRANGER HOUSE IN" :> "There is a stranger in the house." @@
    "I NOT WELL" :> "I am not well." @@
    "I NOT HUNGRY" :> "I am not hungry." @@
    "I NOT TIRED" :> "I am not tired." @@
    "I NOT SICK" :> "I am not sick." @@
    "I NOT GOOD" :> "I am not good." @@
    "I NOT BAD" :> "I am not bad." @@
    "YOU THIRSTY" :> "You are thirsty."

RECURSIVE IsAZ(_)
\* [A-Z]+ matches the whole of w
IsAZ(w) == w # "" /\ IsUpperCh(Head(w)) /\ (Len(w) = 1 \/ IsAZ(Tail(w)))

RECURSIVE AfterTokens(_, _)
\* what follows the first n whitespace-delimited tokens of s
AfterTokens(s, n) ==
    IF n = 0 THEN s
    ELSE LET t == lstrip(s)
             sp == Find(t, " ", 1)
         IN IF sp = 0 THEN "" ELSE AfterTokens(SubSeq(t, sp, Len(t)), n - 1)

Found(text) == [found |-> TRUE, out |-> text]
NoMatch == [found |-> FALSE, out |-> ""]

\* lines 848-854: "I <name>"
PatName(g) ==
    LET t == split(g)
    IN IF Len(t) = 2 /\ t[1] = "I" /\ IsAZ(t[2])
          /\ ~InList(t[2], <<"THIRSTY", "BUSY", "HAPPY", "DANGER">>
                             \o special_verbs \o modal_verbs \o adjectives)
       THEN Found("I am " \o title(t[2]) \o ".") ELSE NoMatch

\* lines 856-868: "YESTERDAY I <verb> ..."
PatYesterday(g) ==
    LET t == split(g)
    IN IF Len(t) >= 3 /\ t[1] = "YESTERDAY" /\ t[2] = "I" /\ IsAZ(t[3]) THEN
           LET verb == lower(t[3])
               rest == strip(AfterTokens(g, 3))
           IN IF verb = "go"
              THEN Found("Yesterday, I went"
                         \o (IF rest # "" THEN " to " \o lower(rest) ELSE "") \o ".")
              ELSE Found("Yesterday, I " \o simple_conjugate(verb, PAST, NoneVal)
                         \o (IF rest # "" THEN " " \o lower(rest) ELSE "") \o ".")
       ELSE NoMatch

\* lines 870-881: "TOMORROW I <verb> ..."
PatTomorrow(g) ==
    LET t == split(g)
    IN IF Len(t) >= 3 /\ t[1] = "TOMORROW" /\ t[2] = "I" /\ IsAZ(t[3]) THEN
           LET verb == lower(t[3])
               rest == strip(AfterTokens(g, 3))
           IN IF verb = "go" /\ contains(rest, "SCHOOL")
              THEN Found("Tomorrow, I will go to school.")
              ELSE Found("Tomorrow, I will " \o verb
                         \o (IF rest # "" THEN " " \o lower(rest) ELSE "") \o ".")
       ELSE NoMatch

\* lines 883-888: "I WANT GO <place>"
PatGoPlace(g) ==
    LET t == split(g)
    IN IF Len(t) = 4 /\ t[1] = "I" /\ t[2] = "WANT" /\ t[3] = "GO" /\ IsAZ(t[4])
       THEN Found("I want to go to the " \o lower(t[4]) \o ".") ELSE NoMatch

\* lines 890-897: "<person> <adj>"
PatPersonAdj(g) ==
    LET t == split(g)
    IN IF Len(t) = 2 /\ IsAZ(t[1]) /\ IsAZ(t[2]) /\ InList(t[2], adjectives)
       THEN Found(title(t[1]) \o " is " \o lower(t[2]) \o ".") ELSE NoMatch

\* lines 899-904: "WHAT YOUR <noun>"
PatWhatYour(g) ==
    LET t == split(g)
    IN IF Len(t) = 3 /\ t[1] = "WHAT" /\ t[2] = "YOUR" /\ IsAZ(t[3])
       THEN Found("What is your " \o lower(t[3]) \o "?") ELSE NoMatch

\* lines 906-911: "WHERE YOU <verb>"
PatWhereYou(g) ==
    LET t == split(g)
    IN IF Len(t) = 3 /\ t[1] = "WHERE" /\ t[2] = "YOU" /\ IsAZ(t[3])
       THEN Found("Where do you " \o lower(t[3]) \o "?") ELSE NoMatch

\* lines 913-918: "YOUR <noun> WHERE"
PatYourWhere(g) ==
    LET t == split(g)
    IN IF Len(t) = 3 /\ t[1] = "YOUR" /\ IsAZ(t[2]) /\ t[3] = "WHERE"
       THEN Found("Where is your " \o lower(t[2]) \o "?") ELSE NoMatch

\* lines 920-925: "STRANGER <place> IN"
PatStranger(g) ==
    LET t == split(g)
    IN IF Len(t) = 3 /\ t[1] = "STRANGER" /\ IsAZ(t[2]) /\ t[3] = "IN"
       THEN Found("There is a stranger in the " \o lower(t[2]) \o ".") ELSE NoMatch

\* lines 846-925: the first shortcut that answers, in the code's order
PatternShortcut(g) ==
    IF PatName(g).found THEN PatName(g)
    ELSE IF PatYesterday(g).found THEN PatYesterday(g)
    ELSE IF PatTomorrow(g).found THEN PatTomorrow(g)
    ELSE IF PatGoPlace(g).found THEN PatGoPlace(g)
    ELSE IF PatPersonAdj(g).found THEN PatPersonAdj(g)
    ELSE IF PatWhatYour(g).found THEN PatWhatYour(g)
    ELSE IF PatWhereYou(g).found THEN PatWhereYou(g)
    ELSE IF PatYourWhere(g).found THEN PatYourWhere(g)
    ELSE PatStranger(g)

\* lines 945-955
FinalClean(refined) ==
    LET r1 == capitalize(refined)
        r2 == IF endswith(r1, " .") THEN SubSeq(r1, 1, Len(r1) - 2) \o "." ELSE r1
    IN IF contains(lower(r2), "i am") THEN replace(r2, "i am", "I am") ELSE r2

\* lines 927-955: [raised, out]
GeneralPipeline(g) ==
    LET sentence_type == detect_sentence_type(g)
        components == extract_components(g, sentence_type)
        tr == transform_to_english(components, sentence_type)
        raw == join(" ", tr.tokens)
                 \o (IF sentence_type \in {"yes-no-question", "wh-question"}
                     THEN "?" ELSE ".")
    IN IF tr.raised THEN [raised |-> TRUE, out |-> ""]
       ELSE [raised |-> FALSE, out |-> FinalClean(refine_with_spacy(raw))]

\* lines 961-989: the backup translation of the except branch
Fallback(g) ==
    LET parts == split(g)
    IN IF Len(parts) = 1 THEN
           IF InList(lower(parts[1]), <<"sit", "stand", "go", "come", "help">>)
           THEN capitalize(parts[1]) \o "."
           ELSE "It is " \o lower(parts[1]) \o "."
       ELSE IF Len(parts) = 2 THEN
           LET subject == parts[1]
               predicate == parts[2]
           IN IF InList(upper(predicate), adjectives) THEN
                  capitalize(subject) \o " "
                    \o (IF lower(subject) = "i" THEN "am"
                        ELSE IF lower(subject) \in {"he", "she", "it"} THEN "is"
                        ELSE "are")
                    \o " " \o lower(predicate) \o "."
              ELSE IF lower(subject) = "i" THEN "I " \o lower(predicate) \o "."
              ELSE IF lower(subject) \in {"he", "she", "it"}
              THEN capitalize(subject) \o " "
                     \o simple_conjugate(lower(predicate), PRESENT, SINGULAR) \o "."
              ELSE capitalize(subject) \o " " \o lower(predicate) \o "."
       ELSE "Unable to translate: " \o g

\* "." in gloss and not gloss.endswith(".")
IsMultiSentence(g) == contains(g, ".") /\ ~endswith(g, ".")

Result(out, raised_, path_, depth_, calls_) ==
    [out |-> out, raised |-> raised_, path |-> path_, depth |-> depth_, calls |-> calls_]

\* the except branch lets the exception go
OnExceptionRaises(g, depth, calls) == Result("", TRUE, "raised", depth, calls)

\* lines 956-991: the except branch returns the backup translation; nothing in it
\* raises for a str argument, so the inner except is not taken
OnException(g, depth, calls) == Result(Fallback(g), FALSE, "fallback", depth, calls)

\* the try body of gloss_to_english once the override table and the multi-sentence
\* branch have been passed: lines 846-955, then the except branch
TranslateOne(g, depth) ==
    LET pat == PatternShortcut(g)
        gen == GeneralPipeline(g)
    IN IF pat.found THEN Result(pat.out, FALSE, "pattern", depth, 1)
       ELSE IF ~gen.raised THEN Result(gen.out, FALSE, "pipeline", depth, 1)
       ELSE OnException(g, depth, 1)

\* the override table is not consulted
DirectMappingOff(g) == NoneVal

\* lines 838-840: the override table's answer, NoneVal when the gloss is no key
DirectMapping(g) == IF g \in DOMAIN direct_mappings THEN direct_mappings[g] ELSE NoneVal

\* the first "." of the gloss is the only place where it is cut
SentencePartsAtFirstStop(g) ==
    LET i == Find(g, ".", 1)
    IN SelectSeq(<<SubSeq(g, 1, i - 1), SubSeq(g, i + 1, Len(g))>>,
                 LAMBDA q : strip(q) # "")

\* lines 766-770: the parts of gloss.split(".") that are not blank
SentenceParts(g) == SelectSeq(splitOn(g, "."), LAMBDA q : strip(q) # "")

RECURSIVE gloss_to_english_at(_, _)
\* gloss_to_english(gloss) entered at recursion depth `depth`;
\* process_multiple_sentences (lines 763-772) is the multi-sentence branch
gloss_to_english_at(gloss0, depth) ==
    LET g == upper(strip(gloss0))
    IN IF DirectMapping(g) # NoneVal
       THEN Result(DirectMapping(g), FALSE, "direct", depth, 1)
       ELSE IF IsMultiSentence(g) THEN
           LET parts == SentenceParts(g)
               rs == [i \in 1..Len(parts) |->
                         gloss_to_english_at(strip(parts[i]), depth + 1)]
               maxd == CHOOSE d \in {rs[i].depth : i \in 1..Len(rs)} \cup {depth} :
                          \A i \in 1..Len(rs) : rs[i].depth <= d
               RECURSIVE total(_)
               total(i) == IF i = 0 THEN 0 ELSE rs[i].calls + total(i - 1)
           IN IF \E i \in 1..Len(rs) : rs[i].raised
              THEN OnException(g, maxd, 1 + total(Len(rs)))
              ELSE Result(join(" ", [i \in 1..Len(rs) |-> rs[i].out]), FALSE, "multi",
                          maxd, 1 + total(Len(rs)))
       ELSE TranslateOne(g, depth)

gloss_to_english(g) == gloss_to_english_at(g, 1)

(***************************************************************************)
(* text_to_gloss: the English -> gloss direction.                          *)
(* A doc is the annotator's output: a sequence of tokens                   *)
(* [text, lemma, pos, tag, dep, head], head being the index of the head    *)
(* token (the root is its own head).  A slot holds a token index, 0 = None.*)
(***************************************************************************)
\* token.children: the tokens whose head is token i, in sentence order
Children(doc, i) ==
    SelectSeq([j \in 1..Len(doc) |-> j], LAMBDA j : j # i /\ doc[j].head = i)

\* first index of seq satisfying Test, 0 if none
FirstIdx(seq, Test(_)) ==
    LET hits == SelectSeq(seq, Test)
    IN IF hits = <<>> THEN 0 ELSE hits[1]

\* last index of seq satisfying Test, 0 if none
LastIdx(seq, Test(_)) ==
    LET hits == SelectSeq(seq, Test)
    IN IF hits = <<>> THEN 0 ELSE hits[Len(hits)]

Indices(doc) == [j \in 1..Len(doc) |-> j]

\* text.lower().strip(",")
RECURSIVE StripCommas(_)
StripCommas(w) ==
    IF w # "" /\ Head(w) = "," THEN StripCommas(Tail(w))
    ELSE IF w # "" /\ SubSeq(w, Len(w), Len(w)) = ","
    THEN StripCommas(SubSeq(w, 1, Len(w) - 1))
    ELSE w

\* text_to_gloss/modules/classifier.py: classify_sentence(doc)
classify_sentence(doc, whw) ==
    IF doc[Len(doc)].text = "?" THEN
        IF \E j \in 1..Len(doc) :
              doc[j].tag \in {"WDT", "WP", "WP$", "WRB"} \/ lower(doc[j].text) \in whw
        THEN "wh-question" ELSE "yes-no-question"
    ELSE LET root == doc[FirstIdx(Indices(doc), LAMBDA j : doc[j].dep = "ROOT")]
         IN IF root.pos = "VERB" /\ root.tag = "VB"
               /\ (doc[1].dep # "nsubj" \/ lower(doc[1].text) = "please")
               /\ (doc[1].pos = "VERB"
                   \/ (Len(doc) > 1 /\ lower(doc[1].text) = "please"
                       /\ doc[2].pos = "VERB"))
            THEN "imperative" ELSE "declarative"

\* a verb slot: nothing, one token, or the (main, infinitive) pair
NoVerb == [kind |-> "none", a |-> 0, b |-> 0]
OneVerb(i) == IF i = 0 THEN NoVerb ELSE [kind |-> "tok", a |-> i, b |-> 0]
PairVerb(i, j) == [kind |-> "pair", a |-> i, b |-> j]

EmptySlots ==
    [subject |-> 0, verb |-> NoVerb, original_verb |-> 0, object |-> 0,
     prep_object |-> 0, time_exp |-> 0, negation |-> FALSE, modal |-> 0,
     complement |-> 0, possessive |-> NoneVal]

\* lines 35-41
XTimeFirst(doc, s, tw) ==
    IF Len(doc) > 0 /\ StripCommas(lower(doc[1].text)) \in tw
    THEN [s EXCEPT !.time_exp = 1] ELSE s

\* lines 47-89: what token i adds to the slots (one branch of the if/elif chain)
XToken(doc, s, i, tw) ==
    LET tok == doc[i]
        det == lower(tok.text) \in {"the", "a", "an"}
    IN IF tok.dep \in {"nsubj", "nsubjpass"} THEN
           IF s.subject # 0 THEN s
           ELSE IF det THEN (IF i + 1 <= Len(doc) THEN [s EXCEPT !.subject = i + 1] ELSE s)
           ELSE [s EXCEPT !.subject = i]
       ELSE IF tok.dep = "ROOT" THEN
           [s EXCEPT !.original_verb = i, !.verb = OneVerb(i)]
       ELSE IF tok.dep = "dobj" THEN
           IF s.object # 0 THEN s
           ELSE IF det /\ i + 1 <= Len(doc) THEN [s EXCEPT !.object = i + 1]
           ELSE [s EXCEPT !.object = i]
       ELSE IF tok.dep \in {"advmod", "npadvmod", "tmod"} THEN
           IF StripCommas(lower(tok.text)) \in tw THEN [s EXCEPT !.time_exp = i] ELSE s
       ELSE IF tok.dep = "neg" THEN [s EXCEPT !.negation = TRUE]
       ELSE IF tok.pos = "AUX" /\ tok.lemma \notin {"be", "have"} THEN
           [s EXCEPT !.modal = i]
       ELSE IF tok.dep = "poss" THEN
           IF doc[tok.head].pos \in {"NOUN", "PROPN"}
           THEN [s EXCEPT !.possessive = tok.text \o " " \o doc[tok.head].text]
           ELSE s
       ELSE s

RECURSIVE XTokensFrom(_, _, _, _)
XTokensFrom(doc, s, i, tw) ==
    IF i > Len(doc) THEN s
    ELSE With(XToken(doc, s, i, tw), LAMBDA s1 : XTokensFrom(doc, s1, i + 1, tw))

\* lines 91-96
XFirstPerson(doc, s) ==
    IF s.subject # 0 THEN s
    ELSE [s EXCEPT !.subject =
             FirstIdx(Indices(doc),
                      LAMBDA j : doc[j].pos = "PRON" /\ lower(doc[j].text) = "i")]

\* the pobj grandchildren of the prep children of token i, in loop order
PrepObjects(doc, i) ==
    LET preps == SelectSeq(Children(doc, i), LAMBDA j : doc[j].dep = "prep")
        RECURSIVE all(_)
        all(k) == IF k > Len(preps) THEN <<>>
                  ELSE SelectSeq(Children(doc, preps[k]), LAMBDA j : doc[j].dep = "pobj")
                         \o all(k + 1)
    IN all(1)

\* lines 98-122
XCopula(doc, s) ==
    IF s.original_verb = 0 \/ doc[s.original_verb].lemma # "be" THEN s
    ELSE LET ov == s.original_verb
             comp == FirstIdx(Children(doc, ov),
                              LAMBDA j : doc[j].dep \in {"acomp", "attr"})
             s1 == IF comp # 0
                   THEN [s EXCEPT !.complement = comp,
                                  !.verb = IF doc[comp].pos \in {"ADJ", "NOUN", "PROPN"}
                                           THEN OneVerb(comp) ELSE s.verb]
                   ELSE LET pobjs == PrepObjects(doc, ov)
                        IN IF pobjs = <<>> THEN s
                           ELSE [s EXCEPT !.prep_object = pobjs[Len(pobjs)],
                                          !.verb = OneVerb(pobjs[1])]
         IN IF s1.subject # 0 /\ lower(doc[s1.subject].text) = "it"
               /\ s1.complement # 0 /\ doc[s1.complement].pos = "NOUN"
            THEN [s1 EXCEPT !.subject = 0] ELSE s1

\* lines 124-131
XFeel(doc, s) ==
    IF s.original_verb = 0 \/ doc[s.original_verb].lemma # "feel" THEN s
    ELSE LET kids == SelectSeq(Children(doc, s.original_verb),
                        LAMBDA j : doc[j].dep \in {"acomp", "advmod", "xcomp"}
                                   \/ doc[j].pos \in {"ADV", "ADJ"})
             rich == SelectSeq(kids,
                        LAMBDA j : lower(doc[j].text) \in {"well", "hot", "cold", "thirsty"})
         IN IF kids = <<>> THEN s
            ELSE [s EXCEPT !.complement = kids[Len(kids)],
                           !.verb = IF rich = <<>> THEN s.verb
                                    ELSE OneVerb(rich[Len(rich)])]

\* want/need with the infinitive as second part whatever its object
XWantNeedInfinitive(doc, s) ==
    IF s.original_verb = 0 \/ doc[s.original_verb].lemma \notin {"want", "need"} THEN s
    ELSE With(FirstIdx(Children(doc, s.original_verb), LAMBDA j : doc[j].dep = "xcomp"),
              LAMBDA inf : IF inf = 0 THEN s
                           ELSE [s EXCEPT !.verb = PairVerb(s.original_verb, inf)])

\* lines 133-161
XWantNeed(doc, s) ==
    IF s.original_verb = 0 \/ doc[s.original_verb].lemma \notin {"want", "need"} THEN s
    ELSE LET ov == s.original_verb
             inf == FirstIdx(Children(doc, ov),
                             LAMBDA j : doc[j].dep = "xcomp"
                                        \/ (doc[j].dep = "dobj" /\ doc[j].pos = "VERB"))
         IN IF inf = 0 THEN s
            ELSE LET rest == FirstIdx(Children(doc, inf),
                                 LAMBDA j : doc[j].dep = "dobj"
                                            /\ lower(doc[j].text) \in {"rest", "bath"})
                     second == IF doc[inf].lemma = "take" /\ rest # 0 THEN rest ELSE inf
                     preps == SelectSeq(Children(doc, inf), LAMBDA j : doc[j].dep = "prep")
                     firsts == SelectSeq(
                                  [k \in 1..Len(preps) |->
                                      FirstIdx(Children(doc, preps[k]),
                                               LAMBDA j : doc[j].dep = "pobj")],
                                  LAMBDA j : j # 0)
                 IN [s EXCEPT !.verb = PairVerb(ov, second),
                              !.prep_object = IF firsts = <<>> THEN s.prep_object
                                              ELSE firsts[Len(firsts)]]

\* lines 163-172
XPrepFallback(doc, s) ==
    IF s.prep_object # 0 \/ s.object # 0 THEN s
    ELSE LET preps == SelectSeq(Indices(doc), LAMBDA j : doc[j].dep = "prep")
             firsts == SelectSeq(
                          [k \in 1..Len(preps) |->
                              FirstIdx(Children(doc, preps[k]),
                                       LAMBDA j : doc[j].dep = "pobj")],
                          LAMBDA j : j # 0)
         IN IF firsts = <<>> THEN s ELSE [s EXCEPT !.prep_object = firsts[1]]

\* lines 174-191, for one root token i whose lemma is "switch"
XSwitchAt(doc, s, i) ==
    LET particle == FirstIdx(Children(doc, i),
                        LAMBDA j : doc[j].dep = "prt"
                                   /\ lower(doc[j].text) \in {"on", "off"})
        fan == FirstIdx(Indices(doc), LAMBDA j : lower(doc[j].text) \in {"fan", "light"})
        s1 == IF fan # 0 THEN [s EXCEPT !.prep_object = fan] ELSE s
    IN IF s1.prep_object # 0 /\ particle # 0
       THEN [s1 EXCEPT !.verb = OneVerb(s1.prep_object)] ELSE s1

RECURSIVE XSwitchFrom(_, _, _)
XSwitchFrom(doc, s, i) ==
    IF i > Len(doc) THEN s
    ELSE With(IF doc[i].lemma = "switch" /\ doc[i].dep = "ROOT"
              THEN XSwitchAt(doc, s, i) ELSE s,
              LAMBDA s1 : XSwitchFrom(doc, s1, i + 1))

\* text_to_gloss/modules/extractor.py: extract_components(doc)
extract_slots(doc, tw) ==
    With(XTimeFirst(doc, EmptySlots, tw), LAMBDA s0 :
    With(XTokensFrom(doc, s0, 1, tw), LAMBDA s1 :
    With(XFirstPerson(doc, s1), LAMBDA s2 :
    With(XCopula(doc, s2), LAMBDA s3 :
    With(XFeel(doc, s3), LAMBDA s4 :
    With(XWantNeed(doc, s4), LAMBDA s5 :
    With(XPrepFallback(doc, s5), LAMBDA s6 :
    XSwitchFrom(doc, s6, 1))))))))

\* text_to_gloss/utils/helpers.py: finger_spell(word) = " ".join(word.upper())
RECURSIVE SpellOut(_)
SpellOut(w) ==
    IF Len(w) <= 1 THEN w ELSE SubSeq(w, 1, 1) \o " " \o SpellOut(Tail(w))

finger_spell(word) == SpellOut(upper(word))

\* " ".join(s.split())
Squeeze(s) == join(" ", split(s))

\* the slot's text as written, not upper-cased
SlotTextAsWritten(doc, i) == IF i = 0 THEN "" ELSE doc[i].text

SlotText(doc, i) == IF i = 0 THEN "" ELSE upper(doc[i].text)

\* transformer.py lines 18-42: the glosses dictionary; verb is NoneVal when
\* the key "verb" is never stored
Glosses(doc, s) ==
    LET me == FirstIdx(Indices(doc),
                       LAMBDA j : doc[j].pos = "PRON" /\ lower(doc[j].text) = "i")
        subj == SlotText(doc, s.subject)
    IN [subject |-> IF subj = "" /\ Len(doc) > 0 THEN SlotText(doc, me) ELSE subj,
        time |-> SlotText(doc, s.time_exp),
        object |-> SlotText(doc, s.object),
        prep_object |-> SlotText(doc, s.prep_object),
        modal |-> SlotText(doc, s.modal),
        complement |-> SlotText(doc, s.complement),
        possessive |-> IF Truthy(s.possessive) THEN upper(s.possessive) ELSE "",
        verb |-> IF s.verb.kind # "tok" THEN NoneVal
                 ELSE IF s.original_verb # 0 /\ doc[s.original_verb].lemma = "be"
                         /\ s.complement # 0 /\ doc[s.complement].pos = "PROPN"
                 THEN upper(doc[s.complement].text)
                 ELSE IF doc[s.verb.a].pos = "PROPN" THEN finger_spell(doc[s.verb.a].text)
                 ELSE upper(doc[s.verb.a].lemma)]

HasWord(doc, w) == \E j \in 1..Len(doc) : lower(doc[j].text) = w

\* a KeyError on glosses["verb"]
KeyError == [out |-> "", raised |-> TRUE]
Gloss(text) == [out |-> text, raised |-> FALSE]
NeedVerb(g, text) == IF g.verb = NoneVal THEN KeyError ELSE Gloss(text)

\* transformer.py lines 46-87
TcDeclarative(doc, s, g) ==
    LET ov == s.original_verb
        neg == IF s.negation THEN " NOT" ELSE ""
        comp == strip(replace(g.complement, "FEEL", ""))
        base ==
            IF ov # 0 /\ doc[ov].lemma = "feel" THEN
                Gloss((IF comp = "THIRSTY"
                       THEN g.time \o " " \o g.subject \o " " \o comp
                       ELSE g.time \o " " \o g.subject \o " " \o comp \o " FEEL") \o neg)
            ELSE IF s.verb.kind = "pair" THEN
                IF g.prep_object # ""
                THEN Gloss(g.time \o " " \o g.subject \o " " \o g.prep_object \o " "
                           \o upper(doc[s.verb.b].text) \o " " \o upper(doc[s.verb.a].lemma))
                ELSE Gloss(g.time \o " " \o g.subject \o " " \o upper(doc[s.verb.a].lemma)
                           \o " " \o upper(doc[s.verb.b].text))
            ELSE IF ov # 0 /\ doc[ov].lemma = "be" THEN
                NeedVerb(g, (IF g.subject = "IT" THEN g.verb
                             ELSE g.time \o " " \o g.subject \o " " \o g.verb) \o neg)
            ELSE NeedVerb(g,
                    (IF g.object # ""
                     THEN g.time \o " " \o g.subject \o " " \o g.object \o " " \o g.verb
                     ELSE IF g.prep_object # ""
                     THEN g.time \o " " \o g.subject \o " " \o g.prep_object \o " " \o g.verb
                     ELSE g.time \o " " \o g.subject \o " " \o g.verb) \o neg)
    IN IF base.raised THEN base
       ELSE IF HasWord(doc, "stranger") /\ HasWord(doc, "house")
       THEN Gloss(Squeeze("STRANGER HOUSE IN, " \o strip(base.out)))
       ELSE Gloss(Squeeze(base.out))

\* transformer.py lines 89-100
TcYesNo(doc, s, g) ==
    IF s.original_verb # 0 /\ doc[s.original_verb].lemma = "switch" /\ g.prep_object # ""
    THEN Gloss(Squeeze(g.subject \o " " \o g.prep_object \o " ON"
                       \o (IF g.modal # "" THEN " " \o g.modal ELSE "") \o "?"))
    ELSE IF s.modal # 0
    THEN NeedVerb(g, Squeeze(g.subject \o " " \o g.verb \o " " \o g.object \o " "
                             \o g.prep_object \o " " \o g.modal \o "?"))
    ELSE NeedVerb(g, Squeeze(g.subject \o " " \o g.verb \o "?"))

\* transformer.py lines 102-113
TcWh(doc, s, g, whw) ==
    LET w == FirstIdx(Indices(doc), LAMBDA j : lower(doc[j].text) \in whw)
        wh == SlotText(doc, w)
    IN IF g.possessive # "" THEN Gloss(g.possessive \o " " \o wh \o "?")
       ELSE IF s.original_verb # 0 /\ doc[s.original_verb].lemma = "feel"
       THEN Gloss(g.subject \o " " \o g.complement \o " FEEL " \o wh \o "?")
       ELSE NeedVerb(g, replace(g.subject \o " " \o g.verb \o " " \o wh, " BE", "") \o "?")

\* transformer.py lines 115-123
TcImperative(doc, s, g) ==
    LET politeness == IF HasWord(doc, "please") THEN " PLEASE" ELSE ""
        subject_part == IF g.possessive # "" THEN g.possessive ELSE g.subject
        obj0 == IF g.possessive # "" THEN "" ELSE g.object
        obj_part == IF obj0 = "DOWN" THEN "" ELSE obj0
    IN NeedVerb(g, Squeeze(subject_part \o " " \o g.verb \o " " \o obj_part \o politeness))

\* text_to_gloss/modules/transformer.py: transform_components
transform_components(sentence_type, s, doc, whw) ==
    With(Glosses(doc, s), LAMBDA g :
        CASE sentence_type = "declarative" -> TcDeclarative(doc, s, g)
          [] sentence_type = "yes-no-question" -> TcYesNo(doc, s, g)
          [] sentence_type = "wh-question" -> TcWh(doc, s, g, whw)
          [] sentence_type = "imperative" -> TcImperative(doc, s, g)
          [] OTHER -> Gloss(""))

\* generator.py: generate_gloss
generate_gloss(transformed_gloss, sentence_type) ==
    LET t == strip(transformed_gloss)
        q == IF sentence_type \in {"yes-no-question", "wh-question"} /\ ~endswith(t, "?")
             THEN t \o "?" ELSE t
    IN Squeeze(q)

\* classify, extract, transform and generate for one annotated part
PipelineGloss(doc, tw, whw) ==
    With(classify_sentence(doc, whw), LAMBDA sentence_type :
    With(extract_slots(doc, tw), LAMBDA components :
    With(transform_components(sentence_type, components, doc, whw), LAMBDA t :
        IF t.raised THEN t ELSE Gloss(generate_gloss(t.out, sentence_type)))))

isl_direct_mappings ==
    "the boy eats an apple" :> "BOY APPLE EAT" @@
    "boy eats an apple" :> "BOY APPLE EAT" @@
    "are you coming" :> "YOU COME?" @@
    "what did he eat" :> "HE EAT WHAT?" @@
    "yesterday, i went to school" :> "YESTERDAY I SCHOOL GO" @@
    "yesterday i went to school" :> "YESTERDAY I SCHOOL GO" @@
    "she is not happy" :> "SHE HAPPY NOT" @@
    "sit down" :> "SIT" @@
    "i am feeling thirsty" :> "I THIRSTY" @@
    "i feeling thirsty" :> "I THIRSTY" @@
    "are you busy" :> "YOU BUSY?" @@
    "i want to eat" :> "I WANT EAT" @@
    "i want to sleep" :> "I WANT SLEEP" @@
    "what is your name" :> "YOUR NAME WHAT?" @@
    "i am not going" :> "I GO NOT" @@
    "i am faraan" :> "I FARAAN" @@
    "i want to go to toilet" :> "I TOILET GO WANT" @@
    "i want water" :> "I WATER WANT" @@
    "i am not feeling well" :> "I WELL FEEL NOT" @@
    "i have fever" :> "I FEVER HAVE" @@
    "i have a fever" :> "I FEVER HAVE" @@
    "i have pain" :> "I PAIN HAVE" @@
    "i have a pain" :> "I PAIN HAVE" @@
    "please help me" :> "HELP ME PLEASE" @@
    "can you call doctor" :> "YOU CALL DOCTOR CAN?" @@
    "can you call a doctor" :> "YOU CALL DOCTOR CAN?" @@
    "can you take me to doctor" :> "YOU TAKE ME DOCTOR CAN?" @@
    "can you take me to a doctor" :> "YOU TAKE ME DOCTOR CAN?" @@
    "please inform my parents" :> "I PARENTS INFORM PLEASE" @@
    "i want to sit" :> "I WANT SIT" @@
    "i want to stand" :> "I WANT STAND" @@
    "i am in danger" :> "I DANGER" @@
    "it is an emergency" :> "EMERGENCY" @@
    "this is not right" :> "THIS RIGHT NOT" @@
    "this is not wrong" :> "THIS WRONG NOT" @@
    "i want to take rest" :> "I WANT REST" @@
    "i want to rest" :> "I WANT REST" @@
    "i need to take bath" :> "I NEED BATH" @@
    "i need a bath" :> "I NEED BATH" @@
    "i am not comfortable as there is a stranger in the house" :> "STRANGER HOUSE IN, I COMFORTABLE NOT" @@
    "what is your name, age and from which place are you coming from" :> "YOUR NAME WHAT? AGE WHAT? COME FROM WHERE?" @@
    "i am having a problem. can you help me" :> "I PROBLEM HAVE. YOU HELP ME CAN?" @@
    "i have a problem. can you help me" :> "I PROBLEM HAVE. YOU HELP ME CAN?" @@
    "i am feeling hot. can you switch on the fan" :> "I HOT FEEL. YOU FAN ON CAN?" @@
    "i feel hot. can you switch on the fan" :> "I HOT FEEL. YOU FAN ON CAN?" @@
    "why are you feeling sad" :> "YOU SAD FEEL WHY?" @@
    "why are you sad" :> "YOU SAD WHY?" @@
    "the shoes are big" :> "SHOES BIG" @@
    "the shoes are small" :> "SHOES SMALL" @@
    "the clothes are big" :> "CLOTHES BIG" @@
    "i am not well" :> "I WELL NOT" @@
    "thank you" :> "THANKYOU"

(***************************************************************************)
(* The annotator on English text: nlp(part)                                *)
(***************************************************************************)
Tk(text, lemma, pos, tag, dep, head) ==
    [text |-> text, lemma |-> lemma, pos |-> pos, tag |-> tag, dep |-> dep, head |-> head]

\* lemma, part of speech and tag of the words the annotator knows
Lexicon ==
    "i" :> <<"I", "PRON", "PRP">> @@ "you" :> <<"you", "PRON", "PRP">> @@
    "me" :> <<"I", "PRON", "PRP">> @@ "it" :> <<"it", "PRON", "PRP">> @@
    "your" :> <<"your", "PRON", "PRP$">> @@ "my" :> <<"my", "PRON", "PRP$">> @@
    "what" :> <<"what", "PRON", "WP">> @@ "whom" :> <<"whom", "PRON", "WP">> @@ "which" :> <<"which", "DET", "WDT">> @@
    "why" :> <<"why", "SCONJ", "WRB">> @@ "where" :> <<"where", "SCONJ", "WRB">> @@
    "can" :> <<"can", "AUX", "MD">> @@ "do" :> <<"do", "AUX", "VBP">> @@
    "am" :> <<"be", "AUX", "VBP">> @@ "is" :> <<"be", "AUX", "VBZ">> @@
    "are" :> <<"be", "AUX", "VBP">> @@ "the" :> <<"the", "DET", "DT">> @@
    "a" :> <<"a", "DET", "DT">> @@ "an" :> <<"an", "DET", "DT">> @@
    "have" :> <<"have", "VERB", "VBP">> @@ "having" :> <<"have", "VERB", "VBG">> @@
    "help" :> <<"help", "VERB", "VB">> @@ "feel" :> <<"feel", "VERB", "VBP">> @@
    "feeling" :> <<"feel", "VERB", "VBG">> @@ "switch" :> <<"switch", "VERB", "VB">> @@
    "coming" :> <<"come", "VERB", "VBG">> @@ "hot" :> <<"hot", "ADJ", "JJ">> @@
    "on" :> <<"on", "ADP", "RP">> @@ "from" :> <<"from", "ADP", "IN">> @@
    "and" :> <<"and", "CCONJ", "CC">> @@ "?" :> <<"?", "PUNCT", ".">> @@
    "," :> <<",", "PUNCT", ",">>

LexOf(w) == IF lower(w) \in DOMAIN Lexicon THEN Lexicon[lower(w)]
            ELSE <<lower(w), "NOUN", "NN">>

\* dependency label and head of every token of the clauses whose parse is known
KnownParses ==
    "i have a problem" :>
        <<<<"nsubj", 2>>, <<"ROOT", 2>>, <<"det", 4>>, <<"dobj", 2>>>> @@
    "i am having a problem" :>
        <<<<"nsubj", 3>>, <<"aux", 3>>, <<"ROOT", 3>>, <<"det", 5>>, <<"dobj", 3>>>> @@
    "can you help me" :>
        <<<<"aux", 3>>, <<"nsubj", 3>>, <<"ROOT", 3>>, <<"dobj", 3>>>> @@
    "i feel hot" :>
        <<<<"nsubj", 2>>, <<"ROOT", 2>>, <<"acomp", 2>>>> @@
    "i am feeling hot" :>
        <<<<"nsubj", 3>>, <<"aux", 3>>, <<"ROOT", 3>>, <<"acomp", 3>>>> @@
    "can you switch on the fan" :>
        <<<<"aux", 3>>, <<"nsubj", 3>>, <<"ROOT", 3>>, <<"prt", 3>>, <<"det", 6>>,
          <<"dobj", 3>>>>

\* the parse of a text the annotator has no better reading of: the first token
\* is the root and every other token hangs off it
FlatParse(toks) ==
    [i \in 1..Len(toks) |->
        IF i = 1 THEN <<"ROOT", 1>>
        ELSE IF toks[i] \in {"?", ",", "!", "."} THEN <<"punct", 1>>
        ELSE <<"dep", 1>>]

\* nlp(part) for a part that the caller supplies no annotation for
DefaultDoc(part) ==
    With(SpacyTokens(part), LAMBDA toks :
    With(toks[Len(toks)] = "?" /\ Len(toks) > 1, LAMBDA q :
    With(IF q THEN SubSeq(toks, 1, Len(toks) - 1) ELSE toks, LAMBDA words :
    With(lower(join(" ", words)), LAMBDA key :
    With(IF key \in DOMAIN KnownParses
         THEN KnownParses[key]
                \o (IF q THEN <<<<"punct",
                                  FirstIdx([j \in 1..Len(words) |-> j],
                                           LAMBDA j : KnownParses[key][j][1] = "ROOT")>>>>
                    ELSE <<>>)
         ELSE FlatParse(toks), LAMBDA parse :
        ListFrom([i \in 1..Len(toks) |->
                     With(LexOf(toks[i]), LAMBDA lex :
                         Tk(toks[i], lex[1], lex[2], lex[3], parse[i][1], parse[i][2]))],
                 1))))))

\* nlp(part): ann maps the texts whose annotation the caller fixes
Annotate(ann, part) ==
    IF part \in DOMAIN ann THEN ann[part] ELSE DefaultDoc(part)

(***************************************************************************)
(* text_to_gloss/main.py: isl_pipeline(sentence)                           *)
(***************************************************************************)
WordChars == "0123456789_"

RECURSIVE RemovePunct(_)
\* re.sub(r'[^\w\s]', '', s)
RemovePunct(s) ==
    IF s = "" THEN ""
    ELSE IF Len(s) = 1
    THEN (IF IsLetterCh(s) \/ s = " " \/ IndexIn(s, WordChars, 1) > 0 THEN s ELSE "")
    ELSE RemovePunct(SubSeq(s, 1, Len(s) \div 2))
           \o RemovePunct(SubSeq(s, Len(s) \div 2 + 1, Len(s)))

\* re.split(r",| and ", part)
SplitCommaAnd(part) == splitOn(replace(part, " and ", ","), ",")

\* [s.strip() for s in pieces if s.strip()]
Stripped(pieces) ==
    SelectSeq([i \in 1..Len(pieces) |-> strip(pieces[i])], LAMBDA t : t # "")

\* lines 91-98: the parts one "."-separated piece contributes
PartsOfPiece(part) ==
    LET compound == endswith(part, "?") /\ (contains(part, ",") \/ contains(part, " and "))
    IN IF compound /\ contains(lower(part), "name, age and from which place") THEN <<part>>
       ELSE IF compound THEN Stripped(SplitCommaAnd(part))
       ELSE <<part>>

RECURSIVE Flatten(_)
Flatten(seqs) == IF seqs = <<>> THEN <<>> ELSE Head(seqs) \o Flatten(Tail(seqs))

\* lines 89-98
PartsOf(sentence) ==
    LET pieces == Stripped(splitOn(sentence, "."))
    IN Flatten([i \in 1..Len(pieces) |-> PartsOfPiece(pieces[i])])

\* lines 103-107
CleanPart(part) ==
    LET c == strip(lower(part))
    IN RemovePunct(IF endswith(c, ".") \/ endswith(c, "?")
                   THEN SubSeq(c, 1, Len(c) - 1) ELSE c)

\* lines 119-125
PostProcess_isl(part, final_gloss) ==
    LET low == lower(part)
    IN IF contains(low, "name, age and from which place")
       THEN "YOUR NAME WHAT? AGE WHAT? COME FROM WHERE?"
       ELSE IF contains(low, "can you take me to doctor") THEN "YOU TAKE ME DOCTOR CAN?"
       ELSE IF contains(low, "boy eats an apple") THEN "BOY APPLE EAT"
       ELSE final_gloss

\* lines 102-128: the gloss of one part
PartGloss(part, ann, tw, whw) ==
    With(CleanPart(part), LAMBDA clean_part :
        IF clean_part \in DOMAIN isl_direct_mappings
        THEN Gloss(isl_direct_mappings[clean_part])
        ELSE With(Annotate(ann, part), LAMBDA doc :
             With(PipelineGloss(doc, tw, whw), LAMBDA g :
                 IF g.raised THEN g ELSE Gloss(PostProcess_isl(part, g.out)))))

\* lines 78-86
CleanSentence(sentence) ==
    LET c == strip(lower(sentence))
    IN RemovePunct(IF endswith(c, ".") THEN SubSeq(c, 1, Len(c) - 1) ELSE c)

\* lines 133-140
Fallback_isl(sentence) ==
    LET clean_input == strip(lower(sentence))
    IN IF contains(clean_input, "name") /\ contains(clean_input, "?") THEN "YOUR NAME WHAT?"
       ELSE IF contains(clean_input, "thirsty") THEN "I THIRSTY"
       ELSE ""

\* the clause glosses joined by a blank
JoinGlossesBlank(glosses) == join(" ", glosses)

\* line 131
JoinGlosses(glosses) == join(". ", glosses)

RECURSIVE PartGlosses(_, _, _, _)
\* lines 100-128: the glosses of the parts, in order
PartGlosses(parts, ann, tw, whw) ==
    IF parts = <<>> THEN <<>>
    ELSE With(Head(parts), LAMBDA part : <<PartGloss(part, ann, tw, whw)>>)
           \o With(Tail(parts), LAMBDA rest : PartGlosses(rest, ann, tw, whw))

\* lines 130-142: the result once every part has its gloss
Joined(sentence, gl) ==
    IF \E i \in 1..Len(gl) : gl[i].raised
    THEN [out |-> "", raised |-> TRUE, path |-> "parts"]
    ELSE With(JoinGlosses(SelectSeq([i \in 1..Len(gl) |-> gl[i].out], LAMBDA t : t # "")),
              LAMBDA result :
                 IF result = ""
                 THEN [out |-> Fallback_isl(sentence), raised |-> FALSE, path |-> "fallback"]
                 ELSE [out |-> result, raised |-> FALSE, path |-> "parts"])

\* isl_pipeline(sentence), the annotator being ann
isl_pipeline(sentence, ann, tw, whw) ==
    With(CleanSentence(sentence), LAMBDA clean :
        IF clean \in DOMAIN isl_direct_mappings
        THEN [out |-> isl_direct_mappings[clean], raised |-> FALSE, path |-> "direct"]
        ELSE With(PartsOf(sentence), LAMBDA parts :
             With(PartGlosses(parts, ann, tw, whw), LAMBDA gl : Joined(sentence, gl))))

(***************************************************************************)
(* Inputs                                                                  *)
(***************************************************************************)
\* longest gloss, in tokens, that the exhaustive part of the input set holds
MaxGlossLen == 3

\* words of the exhaustive part; "?" and "." attach to the word before them
GlossWords == {"I", "PLEASE", "GO", "HAPPY", "WHAT", "YOUR", "BOOK"}
GlossMarks == {"?", "."}

\* single-token glosses beyond GlossWords
SingleGlosses ==
    {"SIT", "COME", "STAND", "HELP", "EMERGENCY", "FARAAN", "WATER", "DOCTOR",
     "SCHOOL", "CAN", "WANT", "NOT", "YESTERDAY", "WHERE", "MY", "F-A-R", "RUN"}

\* longer glosses that reach the rules the short ones cannot
LongGlosses ==
    {"MY BOOK PLEASE", "GO SCHOOL PLEASE", "YOU BOOK READ CAN?", "HE WATER WANT NOT",
     "I WANT GO SCHOOL", "YESTERDAY I BOOK READ", "TOMORROW I GO SCHOOL NOT",
     "YOU CALL DOCTOR CAN", "I BOOK HAVE. YOU HELP ME CAN?", "HE F-A-R SEE",
     "YOUR. WHAT NAME.", "THIS RIGHT", "WE SCHOOL GO", "I FEEL SICK NOT",
     "PLEASE DOOR OPEN", "SHE BIG HOUSE LIVE", "WHY YOU SAD?", "FAN ON PLEASE",
     "YESTERDAY I GO SCHOOL?", "WHAT YOUR NAME?", "YOUR BOOK WHAT?",
     "YESTERDAY HELP ME PLEASE", "WHAT YOUR NAME PLEASE", "I SCHOOL HOME GO",
     "HE FEEL HAVE SICK", "I WANT NEED", "I BOOK READ FAST NOW", "I HAPPY SAD",
     "I CALL DOCTOR HAVE", "I LOOK AFTER HAVE", "SCHOOL I WANT GO",
     "I WANT GO SCHOOL HAVE", "HE WANT GO MARKET NOT", "TAKE ME DOCTOR PLEASE",
     "HE DOCTOR CALL", "BOOK. GO. I", "I GO. . YOU HAPPY"}

\* a gloss is word tokens, each sentence optionally closed by one mark
WellFormed(seq) ==
    /\ seq[1] \in GlossWords
    /\ \A i \in 1..(Len(seq) - 1) : ~(seq[i] \in GlossMarks /\ seq[i + 1] \in GlossMarks)

TokenSeqs ==
    UNION {{seq \in [1..n -> GlossWords \cup GlossMarks] : WellFormed(seq)} :
              n \in 1..MaxGlossLen}

\* the gloss string of a token sequence
GlossText(seq) == replace(replace(join(" ", seq), " ?", "?"), " .", ".")

GlossInputs ==
    {GlossText(seq) : seq \in TokenSeqs} \cup SingleGlosses \cup LongGlosses
        \cup DOMAIN direct_mappings

\* what the annotator may tag NOUN: nothing, or the common nouns
NounTaggings ==
    {{}, {"book", "boy", "apple", "doctor", "school", "water", "name", "problem",
          "door", "house", "fan", "emergency"}}

(***************************************************************************)
(* English inputs: clauses with their annotation                           *)
(***************************************************************************)
\* a token before its head is resolved: role names what other tokens attach to
Pt(text, lemma, pos, tag, dep, role, headRole) ==
    [text |-> text, lemma |-> lemma, pos |-> pos, tag |-> tag, dep |-> dep,
     role |-> role, headRole |-> headRole]

Fronts == {"none", "yesterday", "please", "what", "why"}
Auxes == {"none", "can", "am"}
Subjects == {"none", "I", "you", "it"}
Roots == {"be", "feel", "want", "switch", "help", "become"}
Tails == {"none", "happy", "emergency", "Faraan", "water", "eat", "toilet", "rest", "fan",
          "name", "house"}

FrontTokens(front, root) ==
    CASE front = "yesterday" -> <<Pt("yesterday", "yesterday", "NOUN", "NN", "npadvmod", "x", "root")>>
      [] front = "please" -> <<Pt("please", "please", "INTJ", "UH", "intj", "x", "root")>>
      [] front = "what" -> <<Pt("what", "what", "PRON", "WP",
                               IF root = "be" THEN "attr" ELSE "dobj", "x", "root")>>
      [] front = "why" -> <<Pt("why", "why", "SCONJ", "WRB", "advmod", "x", "root")>>
      [] OTHER -> <<>>

AuxTokens(aux) ==
    CASE aux = "can" -> <<Pt("can", "can", "AUX", "MD", "aux", "x", "root")>>
      [] aux = "am" -> <<Pt("am", "be", "AUX", "VBP", "aux", "x", "root")>>
      [] OTHER -> <<>>

SubjectTokens(subj) ==
    CASE subj = "I" -> <<Pt("I", "I", "PRON", "PRP", "nsubj", "subj", "root")>>
      [] subj = "you" -> <<Pt("you", "you", "PRON", "PRP", "nsubj", "subj", "root")>>
      [] subj = "it" -> <<Pt("it", "it", "PRON", "PRP", "nsubj", "subj", "root")>>
      [] OTHER -> <<>>

NegTokens(neg) ==
    IF neg THEN <<Pt("not", "not", "PART", "RB", "neg", "x", "root")>> ELSE <<>>

\* the root verb: base form (VB) after an auxiliary or without a subject
RootTokens(root, subj, aux) ==
    IF root = "be"
    THEN <<Pt(IF subj = "I" THEN "am" ELSE IF subj = "you" THEN "are" ELSE "is",
              "be", "AUX", IF subj \in {"I", "you"} THEN "VBP" ELSE "VBZ",
              "ROOT", "root", "root")>>
    ELSE <<Pt(root, root, "VERB",
              IF subj = "none" \/ aux # "none" THEN "VB" ELSE "VBP",
              "ROOT", "root", "root")>>

To == Pt("to", "to", "PART", "TO", "aux", "x", "inf")

TailTokens(t, root) ==
    CASE t = "happy" -> <<Pt("happy", "happy", "ADJ", "JJ", "acomp", "comp", "root")>>
      [] t = "emergency" ->
            <<Pt("an", "an", "DET", "DT", "det", "x", "comp"),
              Pt("emergency", "emergency", "NOUN", "NN", "attr", "comp", "root")>>
      [] t = "Faraan" -> <<Pt("Faraan", "Faraan", "PROPN", "NNP", "attr", "comp", "root")>>
      [] t = "water" -> <<Pt("water", "water", "NOUN", "NN", "dobj", "obj", "root")>>
      [] t = "eat" -> <<To, Pt("eat", "eat", "VERB", "VB", "xcomp", "inf", "root")>>
      [] t = "toilet" ->
            <<To, Pt("go", "go", "VERB", "VB", "xcomp", "inf", "root"),
              Pt("to", "to", "ADP", "IN", "prep", "prep", "inf"),
              Pt("the", "the", "DET", "DT", "det", "x", "pobj"),
              Pt("toilet", "toilet", "NOUN", "NN", "pobj", "pobj", "prep")>>
      [] t = "rest" ->
            <<To, Pt("take", "take", "VERB", "VB", "xcomp", "inf", "root"),
              Pt("rest", "rest", "NOUN", "NN", "dobj", "x", "inf")>>
      [] t = "fan" ->
            <<Pt("on", "on", "ADP", "RP", "prt", "x", "root"),
              Pt("the", "the", "DET", "DT", "det", "x", "obj"),
              Pt("fan", "fan", "NOUN", "NN", "dobj", "obj", "root")>>
      [] t = "name" ->
            <<Pt("your", "your", "PRON", "PRP$", "poss", "x", "obj"),
              Pt("name", "name", "NOUN", "NN", IF root = "be" THEN "nsubj" ELSE "dobj",
                 "obj", "root")>>
      [] t = "house" ->
            <<Pt("a", "a", "DET", "DT", "det", "x", "obj"),
              Pt("stranger", "stranger", "NOUN", "NN",
                 IF root = "be" THEN "attr" ELSE "dobj", "obj", "root"),
              Pt("in", "in", "ADP", "IN", "prep", "prep", "obj"),
              Pt("the", "the", "DET", "DT", "det", "x", "house"),
              Pt("house", "house", "NOUN", "NN", "pobj", "house", "prep")>>
      [] OTHER -> <<>>

EndTokens(q) ==
    IF q THEN <<Pt("?", "?", "PUNCT", ".", "punct", "x", "root")>> ELSE <<>>

\* heads resolved to token indices; a token whose head role is absent hangs
\* off the root
Resolve(protos) ==
    LET idx == [j \in 1..Len(protos) |-> j]
        headOf(i, rootIdx) ==
            With(FirstIdx(idx, LAMBDA j : protos[j].role = protos[i].headRole),
                 LAMBDA h : IF h = 0 THEN rootIdx ELSE h)
    IN With(FirstIdx(idx, LAMBDA j : protos[j].dep = "ROOT"), LAMBDA rootIdx :
          ListFrom([i \in 1..Len(protos) |->
                       Tk(IF i = 1 THEN UpCh(Head(protos[i].text)) \o Tail(protos[i].text)
                          ELSE protos[i].text,
                          protos[i].lemma, protos[i].pos, protos[i].tag, protos[i].dep,
                          IF protos[i].dep = "ROOT" THEN i ELSE headOf(i, rootIdx))],
                   1))

\* the text whose tokens are doc: words joined by blanks, "?" attached
TextOfDoc(doc) ==
    replace(join(" ", [i \in 1..Len(doc) |-> doc[i].text]), " ?", "?")

\* one clause: its text and what the annotator returns for it
Clause(front, aux, subj, neg, root, t, q) ==
    With(FrontTokens(front, root) \o AuxTokens(aux) \o SubjectTokens(subj)
           \o NegTokens(neg) \o RootTokens(root, subj, aux)
           \o TailTokens(t, root) \o EndTokens(q), LAMBDA protos :
    With(Resolve(protos), LAMBDA doc : [text |-> TextOfDoc(doc), doc |-> doc]))

(***************************************************************************)
(* Start-up: the word lists                                                *)
(***************************************************************************)
\* data/time_words.txt and data/wh_words.txt, one lower-case word per line
TimeWordsFile == {"yesterday", "today", "tomorrow"}
WhWordsFile == {"what", "where", "why", "when", "who", "how", "which"}

\* gloss_to_english.load_list: the file's words, or [] when no candidate path exists
load_list(present, content) == IF present THEN content ELSE {}

(***************************************************************************)
(* Actions                                                                 *)
(***************************************************************************)
\* callers of the translation functions (request threads of the web service)
NumCallers == 2
Callers == 1..NumCallers

IdleCall == [fn |-> "none", input |-> "", out |-> "", raised |-> FALSE, phase |-> "idle"]

Init ==
    /\ started = "init"
    /\ time_words = {}
    /\ wh_words = {}
    /\ noun_tagged \in NounTaggings
    /\ gloss = ""
    /\ english = ""
    /\ raised = FALSE
    /\ path = "none"
    /\ pc = "idle"
    /\ annotation = <<>>
    /\ requests = [p \in Callers |-> IdleCall]

\* import of gloss_to_english: lines 53-54
LoadLexicon ==
    /\ started = "init"
    /\ \E tp \in BOOLEAN, wp \in BOOLEAN :
          /\ time_words' = load_list(tp, TimeWordsFile)
          /\ wh_words' = load_list(wp, WhWordsFile)
    /\ started' = "up"
    /\ UNCHANGED <<noun_tagged, gloss, english, raised, path, pc, annotation, requests>>

\* one call of gloss_to_english, from entry to return
TranslateGloss ==
    /\ started = "up"
    /\ pc = "idle"
    /\ \E g \in GlossInputs :
          \E r \in {gloss_to_english(g)} :
             /\ gloss' = g
             /\ english' = r.out
             /\ raised' = r.raised
             /\ path' = r.path
    /\ pc' = "returned"
    /\ UNCHANGED <<time_words, wh_words, noun_tagged, started, annotation, requests>>

\* the caller has taken the result; the process waits for the next request
Respond ==
    /\ pc = "returned"
    /\ pc' = "idle"
    /\ gloss' = ""
    /\ english' = ""
    /\ raised' = FALSE
    /\ path' = "none"
    /\ annotation' = <<>>
    /\ UNCHANGED <<time_words, wh_words, noun_tagged, started, requests>>

Next == LoadLexicon \/ TranslateGloss \/ Respond

Spec == Init /\ [][Next]_vars

(***************************************************************************)
(* The English -> gloss direction as a process                             *)
(***************************************************************************)
\* helpers.load_list: open() raises FileNotFoundError when the file is absent
open_list(present, content) ==
    IF present THEN [raised |-> FALSE, words |-> content]
    ELSE [raised |-> TRUE, words |-> {}]

InitText ==
    /\ started = "init"
    /\ time_words = {}
    /\ wh_words = {}
    /\ noun_tagged = {}
    /\ gloss = ""
    /\ english = ""
    /\ raised = FALSE
    /\ path = "none"
    /\ pc = "idle"
    /\ annotation = <<>>
    /\ requests = [p \in Callers |-> IdleCall]

\* import of text_to_gloss: extractor.py line 12, classifier.py line 13,
\* transformer.py line 12; an exception at import leaves the package unusable
ImportTextToGloss ==
    /\ started = "init"
    /\ \E tp \in BOOLEAN, wp \in BOOLEAN :
          LET t == open_list(tp, TimeWordsFile)
              w == open_list(wp, WhWordsFile)
          IN IF t.raised \/ w.raised
             THEN started' = "failed" /\ UNCHANGED <<time_words, wh_words>>
             ELSE started' = "up" /\ time_words' = t.words /\ wh_words' = w.words
    /\ UNCHANGED <<noun_tagged, gloss, english, raised, path, pc, annotation, requests>>

\* the call isl_pipeline(sentence) under annotator a, from entry to return
CallPipeline(sentence0, a0) ==
    \E sentence \in {sentence0}, a \in {a0} :
    \E r \in {isl_pipeline(sentence, a, time_words, wh_words)} :
       /\ english' = sentence
       /\ annotation' = a
       /\ gloss' = r.out
       /\ raised' = r.raised
       /\ path' = r.path
       /\ pc' = "returned"
       /\ UNCHANGED <<time_words, wh_words, noun_tagged, started, requests>>

\* a sentence of one clause; the plain statements also come with a full stop
TranslateClause ==
    /\ started = "up"
    /\ pc = "idle"
    /\ \E front \in Fronts, aux \in Auxes, subj \in Subjects, neg \in BOOLEAN,
          root \in Roots, t \in Tails, q \in BOOLEAN, dot \in BOOLEAN :
          \E c \in {Clause(front, aux, subj, neg, root, t, q)} :
             /\ dot => (~q /\ front = "none" /\ ~neg)
             /\ CallPipeline(c.text \o (IF dot THEN "." ELSE ""), c.text :> c.doc)

\* the ways a caller may write an override key
Variants == {"same", "upper", "capitalized", "padded", "dot", "question", "padded dot"}

Variant(v, k) ==
    CASE v = "upper" -> upper(k)
      [] v = "capitalized" -> capitalize(k)
      [] v = "padded" -> "  " \o k \o " "
      [] v = "dot" -> k \o "."
      [] v = "question" -> k \o "?"
      [] v = "padded dot" -> " " \o k \o ". "
      [] OTHER -> k

\* a key of the override table, as written by the caller
TranslateOverrideKey ==
    /\ started = "up"
    /\ pc = "idle"
    /\ \E k \in DOMAIN isl_direct_mappings, v \in Variants :
          CallPipeline(Variant(v, k), <<>>)

\* most clauses of one input
MaxClauses == 2

\* the clauses that multi-clause inputs are made of
ClausePool ==
    {Clause("none", "none", "I", FALSE, "want", "water", FALSE),
     Clause("none", "can", "you", FALSE, "help", "water", TRUE),
     Clause("none", "none", "I", FALSE, "feel", "happy", FALSE),
     Clause("what", "none", "you", FALSE, "help", "none", TRUE),
     Clause("please", "none", "none", FALSE, "help", "none", FALSE),
     Clause("none", "none", "I", TRUE, "be", "house", FALSE),
     Clause("none", "can", "you", FALSE, "want", "eat", TRUE)}

\* the sentence made of the clauses of cs: each clause that is not a
\* question ends in a full stop
SentenceOf(cs) ==
    join(" ", [i \in 1..Len(cs) |->
                  IF endswith(cs[i].text, "?") THEN cs[i].text ELSE cs[i].text \o "."])

RECURSIVE AnnOf(_)
AnnOf(cs) == IF cs = <<>> THEN <<>> ELSE (Head(cs).text :> Head(cs).doc) @@ AnnOf(Tail(cs))

\* an input of several clauses
TranslateClauses ==
    /\ started = "up"
    /\ pc = "idle"
    /\ \E n \in 2..MaxClauses : \E cs \in [1..n -> ClausePool] :
          CallPipeline(SentenceOf(cs), AnnOf(cs))

\* sentences given as text only; the annotator's reading of them is DefaultDoc
Sentences ==
    {"I have a problem. Can you help me?", "I am feeling hot. Can you switch on the fan?",
     "I feel hot", "Can you help me?", "Please. Help me.",
     "I am Faraan. Yesterday, I went to school?", "Can you help me, and what is your name?",
     ".", "What is the name ?", "Thirsty ...", "Sit down!", "  ", "Whom?"}

TranslateSentence ==
    /\ started = "up"
    /\ pc = "idle"
    /\ \E sentence \in Sentences : CallPipeline(sentence, <<>>)

NextText ==
    ImportTextToGloss \/ TranslateClause \/ TranslateOverrideKey \/ TranslateClauses
        \/ TranslateSentence \/ Respond

SpecText == InitText /\ [][NextText]_vars

(***************************************************************************)
(* Several callers at once                                                 *)
(***************************************************************************)
\* what the callers ask for
CallInputs ==
    [gloss_to_english |-> {"YESTERDAY I BOOK READ", "WHY YOU SAD?", "MY BOOK PLEASE"},
     isl_pipeline |-> {"I have a problem. Can you help me?", "I feel hot",
                       "Can you switch on the fan?"}]

\* the call fn(input) on the word lists as they are now
CallResult(fn, input) ==
    With(IF fn = "gloss_to_english" THEN gloss_to_english(input)
         ELSE isl_pipeline(input, <<>>, time_words, wh_words),
         LAMBDA r : [out |-> r.out, raised |-> r.raised])

\* a call that takes the words it has matched out of the lists
StoreAfterConsuming(fn, input, store) ==
    LET words == {lower(split(input)[i]) : i \in 1..Len(split(input))}
    IN [time |-> store.time \ words, wh |-> store.wh \ words]

\* the word lists a call leaves behind: both functions only read them
\* (membership tests; every remove() is on the call's own token list)
StoreAfter(fn, input, store) == store

InitCalls ==
    /\ started = "up"
    /\ time_words = TimeWordsFile
    /\ wh_words = WhWordsFile
    /\ noun_tagged \in NounTaggings
    /\ gloss = ""
    /\ english = ""
    /\ raised = FALSE
    /\ path = "none"
    /\ pc = "idle"
    /\ annotation = <<>>
    /\ requests = [p \in Callers |-> IdleCall]

\* a request arrives at caller p
Enter(p) ==
    /\ requests[p].phase = "idle"
    /\ \E fn \in DOMAIN CallInputs : \E input \in CallInputs[fn] :
          requests' = [requests EXCEPT ![p] =
                          [fn |-> fn, input |-> input, out |-> "", raised |-> FALSE,
                           phase |-> "entered"]]
    /\ UNCHANGED <<time_words, wh_words, noun_tagged, started, gloss, english, raised,
                   path, pc, annotation>>

\* caller p's call runs to its return
Run(p) ==
    /\ requests[p].phase = "entered"
    /\ \E c \in {requests[p]} :
       \E r \in {CallResult(c.fn, c.input)} :
       \E after \in {StoreAfter(c.fn, c.input, [time |-> time_words, wh |-> wh_words])} :
          /\ requests' = [requests EXCEPT ![p] =
                             [c EXCEPT !.out = r.out, !.raised = r.raised,
                                       !.phase = "returned"]]
          /\ time_words' = after.time
          /\ wh_words' = after.wh
    /\ UNCHANGED <<noun_tagged, started, gloss, english, raised, path, pc, annotation>>

\* caller p's result is sent back
Return(p) ==
    /\ requests[p].phase = "returned"
    /\ requests' = [requests EXCEPT ![p] = IdleCall]
    /\ UNCHANGED <<time_words, wh_words, noun_tagged, started, gloss, english, raised,
                   path, pc, annotation>>

NextCalls == \E p \in Callers : Enter(p) \/ Run(p) \/ Return(p)

SpecCalls == InitCalls /\ [][NextCalls]_vars

(***************************************************************************)
(* Properties                                                              *)
(***************************************************************************)
\* C1: for every key k of the override table of gloss_to_english, the call
\* gloss_to_english(k) returns exactly direct_mappings[k], whatever calls came
\* before it.
C1_OverrideExact ==
    (started = "up" /\ pc = "returned" /\ gloss \in DOMAIN direct_mappings)
        => (raised = FALSE /\ english = direct_mappings[gloss])

\* a key that the multi-sentence branch would otherwise take apart is answered
\* from the table
C1_Witness ==
    /\ pc = "returned"
    /\ gloss = "I PROBLEM HAVE. YOU HELP ME CAN?"
    /\ english = "I have a problem. Can you help me?"
    /\ path = "direct"

\* the key a caller means by a sentence: letter case, surrounding blanks and one
\* closing "." or "?" set aside
KeyOf(sentence) ==
    LET c == strip(lower(sentence))
    IN IF endswith(c, ".") \/ endswith(c, "?") THEN strip(SubSeq(c, 1, Len(c) - 1)) ELSE c

\* C2: for every key k of the override table of isl_pipeline, isl_pipeline(k)
\* returns exactly the tabulated gloss of k, also when k is written in another
\* letter case, with surrounding blanks, or with a closing "." or "?".
C2_OverrideKeyExact ==
    (pc = "returned" /\ KeyOf(english) \in DOMAIN isl_direct_mappings)
        => (raised = FALSE /\ gloss = isl_direct_mappings[KeyOf(english)])

\* s starts with a capital letter and ends in exactly one "." or "?"
CapitalAndTerminal(s) ==
    /\ Len(s) >= 2
    /\ IsUpperCh(SubSeq(s, 1, 1))
    /\ SubSeq(s, Len(s), Len(s)) \in {".", "?"}
    /\ SubSeq(s, Len(s) - 1, Len(s) - 1) \notin {".", "?"}

\* C3: whatever the gloss and whichever path answers it, gloss_to_english
\* returns a string that starts with a capital letter and ends in exactly one
\* "." or "?".
C3_CapitalAndTerminal ==
    (started = "up" /\ pc = "returned" /\ raised = FALSE) => CapitalAndTerminal(english)

\* g with its marks taken off the token ends: s is letters only
LettersOnly(s) == RemovePunct(s) = s /\ s # ""

\* upper-case tokens separated by single blanks, no punctuation but one closing "?"
PlainGloss(g) ==
    /\ g = upper(g)
    /\ g = Squeeze(g)
    /\ g # "" => LET body == IF endswith(g, "?") THEN SubSeq(g, 1, Len(g) - 1) ELSE g
                 IN RemovePunct(body) = body

TokenFormat(toks, i) ==
    LET t == toks[i]
        core == RemovePunct(t)
        mark == SubSeq(t, Len(core) + 1, Len(t))
    IN /\ SubSeq(t, 1, Len(core)) = core
       /\ \/ mark = "" /\ core # ""
          \/ mark = "?"
          \/ mark = "." /\ core # "" /\ i < Len(toks)
          \/ /\ mark = ","
             /\ i >= 3
             /\ <<toks[i - 2], toks[i - 1], t>> = <<"STRANGER", "HOUSE", "IN,">>

GlossFormat(g) ==
    /\ g = upper(g)
    /\ g = Squeeze(g)
    /\ g # "" => \A i \in 1..Len(splitOn(g, " ")) : TokenFormat(splitOn(g, " "), i)

C5_NeverRaises ==
    (started = "up" /\ pc = "returned")
        => (raised = FALSE
            /\ path \in {"direct", "multi", "pattern", "pipeline", "fallback"})

\* an imperative without a verb raises inside the rules and is answered by the
\* backup translation
C5_Witness ==
    /\ pc = "returned"
    /\ gloss = "MY BOOK PLEASE"
    /\ path = "fallback"
    /\ raised = FALSE
    /\ english = "Unable to translate: MY BOOK PLEASE"

\* C6: isl_pipeline never lets an exception reach its caller, whatever the
\* annotation: any sentence type, any slots empty or filled, a two-part
\* want/need verb included.
C6_PipelineNeverRaises ==
    (pc = "returned" /\ english # "") => raised = FALSE

\* the "."-separated clauses of an input
ClausesOf(sentence) == Stripped(splitOn(sentence, "."))

\* the call's result is the ". "-join of what each clause gets alone (an
\* exception in a clause alone is an exception of the call)
ClauseByClause ==
    LET cs == ClausesOf(english)
        rs == [i \in 1..Len(cs) |-> isl_pipeline(cs[i], annotation, time_words, wh_words)]
    IN IF \E i \in 1..Len(cs) : rs[i].raised THEN raised = TRUE
       ELSE raised = FALSE /\ gloss = join(". ", [i \in 1..Len(cs) |-> rs[i].out])

ExampleHolds ==
    english = "I have a problem. Can you help me?"
        => gloss = "I PROBLEM HAVE. YOU HELP ME CAN?"

\* C7 as stated: an input of several clauses separated by "." is translated
\* clause by clause, the result being the ". "-join of what each clause gets
\* alone; "I have a problem. Can you help me?" gives
\* "I PROBLEM HAVE. YOU HELP ME CAN?".
C7_ClauseByClause ==
    (pc = "returned" /\ Len(ClausesOf(english)) > 1) => (ClauseByClause /\ ExampleHolds)

\* a clause that is split at "," and " and " inside a longer input but is an
\* override key when given alone
CompoundKey(clause) ==
    /\ endswith(clause, "?")
    /\ contains(clause, ",") \/ contains(clause, " and ")
    /\ CleanSentence(clause) \in DOMAIN isl_direct_mappings

\* C7, amended: an input of several clauses separated by "." whose text, with
\* the punctuation removed, is no override key, and none of whose clauses is a
\* ","/" and " question that is an override key, is translated clause by
\* clause: the result is the ". "-join of what each clause gets alone;
\* "I have a problem. Can you help me?" gives "I PROBLEM HAVE. YOU HELP ME CAN?".
C7_ClauseByClauseUnlessKey ==
    (/\ pc = "returned"
     /\ Len(ClausesOf(english)) > 1
     /\ CleanSentence(english) \notin DOMAIN isl_direct_mappings
     /\ \A i \in 1..Len(ClausesOf(english)) : ~CompoundKey(ClausesOf(english)[i]))
        => (ClauseByClause /\ ExampleHolds)

C7_Witness ==
    /\ pc = "returned"
    /\ english = "I have a problem. Can you help me?"
    /\ gloss = "I PROBLEM HAVE. YOU HELP ME CAN?"
    /\ path = "parts"

\* C8: a word-list file that is absent at start-up leaves its category empty
\* and raises nothing: the process starts, in either direction.
C8_StartsWithoutWordLists ==
    /\ started # "failed"
    /\ started = "up" => (time_words \in {{}, TimeWordsFile} /\ wh_words \in {{}, WhWordsFile})

UnknownSingleToken(g) ==
    /\ Len(split(g)) = 1
    /\ g = upper(strip(g))
    /\ LettersOnly(g)
    /\ g \notin DOMAIN direct_mappings
    /\ lower(g) \notin time_words \cup wh_words
    /\ ~InList(g, adjectives \o modal_verbs \o special_verbs \o place_nouns
                    \o possessive_markers \o wh_literals)
    /\ ~InList(lower(g), command_verbs)
    /\ g \notin {"I", "NOT", "PLEASE"}

\* C10: a gloss of one token that is in neither the override table nor any
\* closed lexicon comes back as that token capitalised and followed by ".",
\* with no other word added.
C10_UnknownSingleToken ==
    (started = "up" /\ pc = "returned" /\ UnknownSingleToken(gloss))
        => english = capitalize(gloss) \o "."

\* a call of isl_pipeline that the rules answered from a single part
SinglePart ==
    /\ pc = "returned"
    /\ english # ""
    /\ path # "direct"
    /\ Len(PartsOf(english)) = 1
    /\ CleanPart(PartsOf(english)[1]) \notin DOMAIN isl_direct_mappings

\* what the annotator returned for that part
DocOfCall == Annotate(annotation, PartsOf(english)[1])

\* the last token of a gloss, "" when it has none
LastToken(g) == With(split(g), LAMBDA toks : IF toks = <<>> THEN "" ELSE toks[Len(toks)])

\* the part of the call is declarative and its negation slot is set
NegatedDeclarative(doc) ==
    /\ classify_sentence(doc, wh_words) = "declarative"
    /\ extract_slots(doc, time_words).negation

\* C11: for every declarative English sentence whose negation slot is set,
\* whichever construction applies (feel, want/need + infinitive, copula,
\* regular verb), the gloss contains NOT and NOT is its last token.
C11_NegationLast ==
    SinglePart =>
        With(DocOfCall, LAMBDA doc :
            NegatedDeclarative(doc) => (raised = FALSE /\ LastToken(gloss) = "NOT"))

\* the root of doc, and the infinitival complement of a want/need root (0 if none)
RootOf(doc) == FirstIdx(Indices(doc), LAMBDA j : doc[j].dep = "ROOT")

InfinitiveOf(doc) ==
    With(RootOf(doc), LAMBDA r :
        IF doc[r].lemma \notin {"want", "need"} THEN 0
        ELSE FirstIdx(Children(doc, r), LAMBDA j : doc[j].dep = "xcomp"))

\* the object of a preposition that hangs off token i (0 if none)
PrepObjectOf(doc, i) ==
    With(PrepObjects(doc, i), LAMBDA ps : IF ps = <<>> THEN 0 ELSE ps[Len(ps)])

\* the direct object rest/bath of the infinitive "take" (0 if none)
RestOf(doc, inf) ==
    IF doc[inf].lemma # "take" THEN 0
    ELSE FirstIdx(Children(doc, inf),
                  LAMBDA j : doc[j].dep = "dobj" /\ lower(doc[j].text) \in {"rest", "bath"})

\* the gloss of a want/need clause whose second verb part is token second:
\* (time,) subject, prepositional object, second part, main verb when there is
\* a prepositional object; (time,) subject, main verb, second part otherwise
WantGloss(doc, s, second) ==
    With(Glosses(doc, s), LAMBDA g :
    With(upper(doc[RootOf(doc)].lemma), LAMBDA main :
        Squeeze(g.time \o " " \o g.subject \o " "
                \o (IF s.prep_object # 0
                    THEN upper(doc[s.prep_object].text) \o " " \o upper(doc[second].text)
                           \o " " \o main
                    ELSE main \o " " \o upper(doc[second].text)))))

\* the two-part verb is (root, second), the prepositional object is the
\* infinitive's, and the gloss is in the order of WantGloss
WantInfinitiveAs(doc, inf, second) ==
    With(extract_slots(doc, time_words), LAMBDA s :
        /\ s.verb = PairVerb(RootOf(doc), second)
        /\ s.prep_object = PrepObjectOf(doc, inf)
        /\ raised = FALSE
        /\ gloss = WantGloss(doc, s, second))

PoliteImperative(g) ==
    /\ RemovePunct(g) = g
    /\ detect_sentence_type(g) = "imperative"
    /\ InList("PLEASE", split(g))

\* C13: for every imperative gloss containing PLEASE the English rendering
\* begins with "Please" (the verb and the object follow it), whatever other
\* slots (possessive, time) are filled.
C13_PleaseFirst ==
    (started = "up" /\ pc = "returned" /\ PoliteImperative(gloss))
        => (raised = FALSE /\ startswith(english, "Please "))

\* nouns of the gloss vocabulary
NounSigns == {"NAME", "BOOK"}

\* the gloss is YOUR, a noun and WHAT, as "YOUR N WHAT" or "WHAT YOUR N", with or
\* without a closing "?"; the noun, "" when the gloss is not of this form
PossessedNoun(g) ==
    With(split(IF endswith(g, "?") THEN SubSeq(g, 1, Len(g) - 1) ELSE g), LAMBDA toks :
        IF Len(toks) # 3 THEN ""
        ELSE IF toks[1] = "YOUR" /\ toks[3] = "WHAT" /\ toks[2] \in NounSigns THEN toks[2]
        ELSE IF toks[1] = "WHAT" /\ toks[2] = "YOUR" /\ toks[3] \in NounSigns THEN toks[3]
        ELSE "")

\* C14: for every noun N the gloss made of the possessive YOUR, N and the
\* wh-word WHAT (as "YOUR N WHAT" or "WHAT YOUR N", with or without a closing
\* "?") is rendered by gloss_to_english as "What is your n?".
C14_WhatIsYour ==
    (started = "up" /\ pc = "returned" /\ PossessedNoun(gloss) # "")
        => (raised = FALSE /\ english = "What is your " \o lower(PossessedNoun(gloss)) \o "?")

\* the word tokens of a gloss: the closing "?" is no part of the last word
WordsOf(g) == split(IF endswith(g, "?") THEN SubSeq(g, 1, Len(g) - 1) ELSE g)

\* the first wh-word of a gloss, "" when it has none
FirstWh(g) ==
    With(SelectSeq(WordsOf(g), IsWhToken), LAMBDA ws : IF ws = <<>> THEN "" ELSE ws[1])

\* the label by the precedence wh-word, then "?" or final CAN, then PLEASE or a
\* leading command verb, then declarative
LabelByPrecedence(g) ==
    With(WordsOf(g), LAMBDA words :
        IF FirstWh(g) # "" THEN "wh-question"
        ELSE IF endswith(g, "?") \/ (words # <<>> /\ words[Len(words)] = "CAN")
        THEN "yes-no-question"
        ELSE IF InList("PLEASE", words)
                \/ (words # <<>> /\ InList(lower(words[1]), command_verbs))
        THEN "imperative"
        ELSE "declarative")

\* C15: the gloss is given the label of this precedence: a wh-word anywhere
\* (also as the final word directly followed by the closing "?") gives
\* wh-question; otherwise a closing "?" or a last token CAN gives
\* yes-no-question; otherwise PLEASE or a leading command verb gives
\* imperative; otherwise declarative; and the wh-word that decided the label is
\* the one the extractor puts in the wh-word slot.
C15_LabelByPrecedence ==
    (started = "up" /\ pc = "returned" /\ ~contains(gloss, "."))
        => With(detect_sentence_type(gloss), LAMBDA label :
               /\ label = LabelByPrecedence(gloss)
               /\ label = "wh-question"
                     => extract_components(gloss, label).wh_word = FirstWh(gloss))

\* doc holds a wh-word: by its tag or by the word list
HasWhWord(doc) ==
    \E j \in 1..Len(doc) :
        doc[j].tag \in {"WDT", "WP", "WP$", "WRB"} \/ lower(doc[j].text) \in wh_words

\* the root is a base-form verb at the start of the sentence, or after "please",
\* and the sentence does not start with a subject
CommandForm(doc) ==
    With(doc[RootOf(doc)], LAMBDA root :
        /\ root.pos = "VERB" /\ root.tag = "VB"
        /\ doc[1].dep # "nsubj" \/ lower(doc[1].text) = "please"
        /\ \/ doc[1].pos = "VERB"
           \/ Len(doc) > 1 /\ lower(doc[1].text) = "please" /\ doc[2].pos = "VERB")

\* the label C16 gives a sentence
LabelOfSentence(doc) ==
    IF doc[Len(doc)].text = "?" \/ HasWhWord(doc)
    THEN (IF HasWhWord(doc) THEN "wh-question" ELSE "yes-no-question")
    ELSE IF CommandForm(doc) THEN "imperative"
    ELSE "declarative"

\* C16: a sentence that ends with "?" or contains a wh-word is a question,
\* wh-question when it contains a wh-word (with or without a closing "?") and
\* yes-no-question otherwise; a non-question whose root is a base-form verb not
\* preceded by a subject (optionally preceded by "please") is imperative;
\* everything else is declarative.
C16_LabelOfSentence ==
    SinglePart =>
        With(DocOfCall, LAMBDA doc : classify_sentence(doc, wh_words) = LabelOfSentence(doc))

\* the call went through the extraction rules on the whole gloss
Extracted ==
    /\ started = "up"
    /\ pc = "returned"
    /\ path \in {"pipeline", "fallback"}
    /\ ~contains(gloss, ".")

\* what extraction gave for the gloss of the call
ComponentsOfCall ==
    With(upper(strip(gloss)), LAMBDA g : extract_components(g, detect_sentence_type(g)))

\* the slots that claim input tokens: location and proper_name only mirror
\* the token another slot holds
ClaimingSlots ==
    <<"time_exp", "subject", "object", "verb", "adjective", "modal", "negation",
      "wh_word", "politeness", "possessive", "secondary_verb">>

\* a token without letter case and finger-spelling hyphens
Plain(t) == upper(replace(t, "-", ""))

PlainAll(toks) == ListFrom([i \in 1..Len(toks) |-> Plain(toks[i])], 1)

\* the words the slots of c hold, slot after slot
RECURSIVE HeldFrom(_, _)
HeldFrom(c, k) ==
    IF k > Len(ClaimingSlots) THEN <<>>
    ELSE (IF c[ClaimingSlots[k]] = NoneVal THEN <<>>
          ELSE PlainAll(split(c[ClaimingSlots[k]])))
           \o HeldFrom(c, k + 1)

Occurrences(w, seq) == Cardinality({i \in 1..Len(seq) : seq[i] = w})

\* C17: after extraction no occurrence of an input token is held by two
\* different slots (a location that is also the object and the proper-name
\* marker apart): a token is held by at most as many slots as it occurs in
\* the gloss.
C17_SlotsExclusive ==
    Extracted =>
        With(PlainAll(split(upper(strip(gloss)))), LAMBDA input :
        With(HeldFrom(ComponentsOfCall, 1), LAMBDA held :
            \A i \in 1..Len(input) :
                Occurrences(input[i], held) <= Occurrences(input[i], input)))

\* C18: after extraction every word token of the gloss is held by some slot:
\* nothing is dropped (residual tokens go to subject, object, and all further
\* residue into the object).
C18_NothingDropped ==
    Extracted =>
        With(PlainAll(WordsOf(upper(strip(gloss)))), LAMBDA input :
        With(HeldFrom(ComponentsOfCall, 1), LAMBDA held :
            \A i \in 1..Len(input) : InList(input[i], held)))

\* the extraction state when the rules for negation and all before it have run
StateBeforeLists(g, sentence_type) ==
    ExNegation(ExWhWord(ExPoliteness(ExTime(ExStart(g, sentence_type))), sentence_type))

\* the extraction state when the idiom rules and the special-verb rule have run
StateAfterIdioms(g, sentence_type) ==
    ExSpecialVerb(ExMultiWord(ExDoctor(ExWantGo(
        ExPossessive(ExModal(ExAdjective(ExLocation(
            StateBeforeLists(g, sentence_type)))))))))

\* the first matches are kept: the location is the first place noun, the
\* adjective the first adjective, and the verb of the idiom and special-verb
\* rules is the verb at the end
FirstMatchKept(g, sentence_type) ==
    With(StateBeforeLists(g, sentence_type).tokens, LAMBDA toks :
    With(StateAfterIdioms(g, sentence_type).c.verb, LAMBDA early :
    With(extract_components(g, sentence_type), LAMBDA c :
        /\ c.location = FirstListed(place_nouns, toks)
        /\ c.adjective = FirstListed(adjectives, toks)
        /\ early # NoneVal => c.verb = early)))

\* C19: each slot is filled by the first match in the rule order and is never
\* overwritten afterwards: of two place nouns or two adjectives the slot keeps
\* the first, and a verb set by WANT+GO+location, CALL DOCTOR, an idiom pair or
\* a special verb is not replaced by a later rule.
C19_FirstMatchKept ==
    Extracted =>
        With(upper(strip(gloss)), LAMBDA g : FirstMatchKept(g, detect_sentence_type(g)))

\* the extraction state on which the special-verb rule runs
StateBeforeSpecial(g, sentence_type) ==
    ExMultiWord(ExDoctor(ExWantGo(
        ExPossessive(ExModal(ExAdjective(ExLocation(
            StateBeforeLists(g, sentence_type))))))))

\* the rule on a state without verb: the first special verb among the tokens
\* is the verb, a second one the secondary verb, and neither stays a token
SpecialVerbsTaken(st) ==
    With(SelectSeq(st.tokens, LAMBDA t : InList(t, special_verbs)), LAMBDA sv :
    With(ExSpecialVerb(st), LAMBDA after :
        (st.c.verb = NoneVal /\ sv # <<>>)
            => /\ after.c.verb = sv[1]
               /\ Len(sv) >= 2 => after.c.secondary_verb = sv[2]
               /\ \A i \in 1..Len(after.tokens) :
                     ~InList(after.tokens[i], special_verbs)
                         \/ Len(sv) > 2))

\* C20: when a gloss holds special verbs (FEEL, HAVE, WANT, NEED) and no idiom
\* has set the verb, the first special verb of the gloss becomes the verb, a
\* second one the secondary verb, and both leave the residual tokens.
C20_SpecialVerbs ==
    Extracted =>
        With(upper(strip(gloss)), LAMBDA g :
            SpecialVerbsTaken(StateBeforeSpecial(g, detect_sentence_type(g))))

\* the tokens of the gloss of the call, as extraction splits them
TokensOfCall == split(upper(strip(gloss)))

\* the place nouns among the tokens
PlacesIn(toks) == SelectSeq(toks, LAMBDA t : InList(t, place_nouns))

\* WANT, GO and a place noun give verb WANT, secondary verb GO and the place
\* noun as object
WantGoPlace(toks, c) ==
    (InList("WANT", toks) /\ InList("GO", toks) /\ PlacesIn(toks) # <<>>)
        => /\ c.verb = "WANT"
           /\ c.secondary_verb = "GO"
           /\ c.object # NoneVal /\ InList(c.object, PlacesIn(toks))

\* CALL directly followed by DOCTOR, and TAKE with ME and DOCTOR, are one verb
DoctorIdioms(toks, c) ==
    /\ (\E i \in 1..(Len(toks) - 1) : toks[i] = "CALL" /\ toks[i + 1] = "DOCTOR")
          => c.verb = "CALL DOCTOR"
    /\ (InList("TAKE", toks) /\ InList("ME", toks) /\ InList("DOCTOR", toks)
          /\ ~InList("CALL", toks))
          => c.verb = "TAKE ME DOCTOR"

\* C21: for every gloss that holds WANT, GO and a place noun, in any order and
\* with any other tokens, extraction ends with verb WANT, secondary verb GO and
\* the place noun as object; CALL followed by DOCTOR, and TAKE with ME and
\* DOCTOR, each become one idiom verb.
C21_Idioms ==
    Extracted =>
        With(TokensOfCall, LAMBDA toks :
        With(ComponentsOfCall, LAMBDA c : WantGoPlace(toks, c) /\ DoctorIdioms(toks, c)))

\* the imperative rule as the claim reads it: on the tokens the marker and
\* idiom rules leave, the first is the verb and the others are the object
FirstLeftIsVerb(g, sentence_type) ==
    With(StateBeforeSpecial(g, sentence_type), LAMBDA st :
    With(extract_components(g, sentence_type), LAMBDA c :
        (st.c.verb = NoneVal /\ st.tokens # <<>>)
            => /\ c.verb = st.tokens[1]
               /\ Len(st.tokens) >= 2 => c.object = join(" ", Tail(st.tokens))))

\* a gloss that opens with a command verb keeps it in the verb slot
CommandVerbKept(g, sentence_type) ==
    With(split(g), LAMBDA toks :
        (toks # <<>> /\ InList(lower(toks[1]), command_verbs))
            => extract_components(g, sentence_type).verb = toks[1])

\* C22: for an imperative gloss the first token left after the marker passes
\* becomes the verb and the remaining tokens the object; a gloss that is
\* imperative because it starts with a command verb ends with that command
\* verb in the verb slot.
C22_ImperativeVerb ==
    (Extracted /\ path = "pipeline")
        => With(upper(strip(gloss)), LAMBDA g :
               detect_sentence_type(g) = "imperative"
                   => (FirstLeftIsVerb(g, "imperative") /\ CommandVerbKept(g, "imperative")))

\* the token belongs to one of the closed lexicons
InClosedLexicon(token) ==
    \/ lower(token) \in time_words
    \/ IsWhToken(token)
    \/ InList(token, adjectives)
    \/ InList(token, modal_verbs)
    \/ InList(token, special_verbs)
    \/ InList(token, place_nouns)

\* the proper-name rule on the state st of an extraction of the gloss tokens
\* input: the token it takes is in no closed lexicon, and it is the subject
\* exactly when no subject was assigned and it opens the input
NameRuleAsClaimed(st, input) ==
    With(ExProperName(st), LAMBDA after :
        after # st =>
            With(after.c.proper_name, LAMBDA name :
                /\ ~InClosedLexicon(name)
                /\ IF st.c.subject = NoneVal /\ input # <<>> /\ input[1] = name
                   THEN after.c.subject = name /\ after.c.object = st.c.object
                   ELSE after.c.object = name /\ after.c.subject = st.c.subject))

\* C23: in gloss-direction extraction a token is treated as a proper name only
\* if it belongs to no closed lexicon (time words, wh-words, adjectives, modals,
\* special verbs, place nouns); the first such token becomes the subject only
\* when no subject is assigned and it is the first token of the input gloss,
\* and otherwise becomes the object.
C23_ProperName ==
    (Extracted /\ path = "pipeline")
        => With(upper(strip(gloss)), LAMBDA g :
               NameRuleAsClaimed(StateAfterIdioms(g, detect_sentence_type(g)), split(g)))

\* the tense the time slot stands for
TenseOfTimeSlot(time_exp) ==
    IF time_exp = NoneVal THEN PRESENT
    ELSE IF lower(time_exp) = "yesterday" THEN PAST
    ELSE IF lower(time_exp) \in {"tomorrow", "future"} THEN FUTURE
    ELSE PRESENT

\* the number of a subject slot: singular for a third person singular, so
\* never for I, you, we or they
NumberOfSubject(subject) ==
    IF subject = NoneVal \/ lower(subject) \in {"i", "you", "we", "they"}
    THEN PLURAL ELSE SINGULAR

\* a declarative frame whose verb is a regular one and goes through inflection
RegularVerbFrame(c) ==
    /\ Truthy(c.verb)
    /\ ~contains(c.verb, " ")
    /\ c.verb \notin DOMAIN multi_word_expressions
    /\ ~InList(c.verb, special_verbs)
    /\ lower(c.verb) \notin {"go", "live", "is"}
    /\ ~Truthy(c.adjective) /\ ~Truthy(c.negation) /\ ~Truthy(c.modal)
    /\ ~Truthy(c.secondary_verb) /\ ~Truthy(c.possessive) /\ ~Truthy(c.location)

\* C24: in the gloss-to-English direction the tense is a function of the time
\* slot alone (yesterday gives past, tomorrow or future gives future, anything
\* else present), and a regular verb is inflected for that tense and for
\* number, the singular form being chosen if and only if the subject is a third
\* person singular (so never for I, you, we or they).
C24_TenseAndNumber ==
    (Extracted /\ path = "pipeline" /\ detect_sentence_type(upper(strip(gloss))) = "declarative")
        => With(ComponentsOfCall, LAMBDA c :
               /\ TenseOf(c) = TenseOfTimeSlot(c.time_exp)
               /\ RegularVerbFrame(c) =>
                      InList(conjugate_verb(lower(c.verb), TenseOfTimeSlot(c.time_exp),
                                            NumberOfSubject(c.subject)),
                             split(lower(RemovePunct(english)))))

\* the lead words a question frame may open with
LeadWords(c, sentence_type) ==
    IF sentence_type = "wh-question"
    THEN {capitalize(lower(IF c.wh_word = NoneVal THEN "what" ELSE c.wh_word))}
    ELSE IF c.modal = "CAN" THEN {"Can"}
    ELSE IF Truthy(c.adjective) THEN {"Are", "Is"}
    ELSE {"Do", "Does"}

\* the first word of a sentence
FirstWord(s) == With(split(s), LAMBDA w : IF w = <<>> THEN "" ELSE w[1])

\* C25: for every question frame the first word of the English rendering is
\* the lead word: for a yes-no-question Can with modal CAN, otherwise Are or Is
\* with an adjective and Do or Does without; for a wh-question the wh-word.
\* This holds whatever other slots (time expression, possessive) are filled.
C25_LeadWordFirst ==
    (Extracted /\ path = "pipeline")
        => With(detect_sentence_type(upper(strip(gloss))), LAMBDA sentence_type :
               sentence_type \in {"yes-no-question", "wh-question"}
                   => FirstWord(english) \in LeadWords(ComponentsOfCall, sentence_type))

\* the gloss as gloss_to_english normalises it
NormalisedCall == upper(strip(gloss))

\* the gloss takes the multi-sentence branch: it is no key of the override
\* table, holds a "." and does not end with one
TakesMultiBranch(g) ==
    /\ g \notin DOMAIN direct_mappings
    /\ contains(g, ".")
    /\ ~endswith(g, ".")

\* the pieces between the "." of the gloss that are not blank
PiecesBetweenStops(g) == SelectSeq(splitOn(g, "."), LAMBDA q : strip(q) # "")

\* C26: gloss_to_english terminates on every input: the recursion between
\* gloss_to_english and process_multiple_sentences is bounded, because every
\* part handed back to gloss_to_english holds no ".", so the recursion depth
\* never exceeds two and each part is translated exactly once.
C26_RecursionBounded ==
    (started = "up" /\ pc = "returned")
        => With(NormalisedCall, LAMBDA g :
           With(gloss_to_english(gloss), LAMBDA r :
               /\ r.depth <= 2
               /\ r.calls = IF TakesMultiBranch(g) THEN 1 + Len(PiecesBetweenStops(g)) ELSE 1
               /\ TakesMultiBranch(g) =>
                      \A i \in 1..Len(SentenceParts(g)) : ~contains(SentenceParts(g)[i], ".")))

\* a gloss of three sentences was translated: four calls, two levels
C26_Witness ==
    /\ started = "up" /\ pc = "returned" /\ path = "multi"
    /\ gloss = "BOOK. GO. I"
    /\ With(gloss_to_english(gloss), LAMBDA r : r.depth = 2 /\ r.calls = 4)

\* the copula that agrees with a subject
AgreeingCopula(subject) ==
    IF lower(subject) = "i" THEN "am"
    ELSE IF lower(subject) \in {"you", "we", "they"} THEN "are"
    ELSE "is"

\* the gloss is a subject followed by an adjective of the closed lexicon
SubjectAdjective(g) ==
    With(split(g), LAMBDA toks :
        /\ Len(toks) = 2
        /\ RemovePunct(g) = g
        /\ ~InList(toks[1], adjectives)
        /\ InList(toks[2], adjectives))

\* the second word of a sentence, "" when it has fewer than two
SecondWord(s) == With(split(s), LAMBDA w : IF Len(w) < 2 THEN "" ELSE w[2])

\* C27: for every two-token gloss "<subject> <adjective>" whose second token
\* is in the closed adjective lexicon, the English copula agrees with the
\* subject ("am" for I, "are" for you, we and they, "is" otherwise), and the
\* gloss gets the same copula from the pattern shortcut, from the declarative
\* adjective template and from the two-token error fallback.
C27_CopulaAgrees ==
    (started = "up" /\ pc = "returned" /\ path # "direct" /\ SubjectAdjective(NormalisedCall))
        => With(NormalisedCall, LAMBDA g :
           With(AgreeingCopula(split(g)[1]), LAMBDA be :
               /\ SecondWord(english) = be
               /\ SecondWord(Fallback(g)) = be
               /\ With(GeneralPipeline(g), LAMBDA gen : ~gen.raised => SecondWord(gen.out) = be)))

\* a gloss without its closing "?"
WithoutMark(g) == IF endswith(g, "?") THEN SubSeq(g, 1, Len(g) - 1) ELSE g

\* the wh-word of doc as the gloss renders it
WhOf(doc) ==
    SlotText(doc, FirstIdx(Indices(doc), LAMBDA j : lower(doc[j].text) \in wh_words))

\* the tokens a wh-question renders (subject, verb, wh-word), the whole
\* tokens BE left out
RenderedWithoutBE(doc) ==
    With(Glosses(doc, extract_slots(doc, time_words)), LAMBDA g :
        SelectSeq(split(g.subject) \o split(g.verb) \o split(WhOf(doc)),
                  LAMBDA t : t # "BE"))

\* doc is a wh-question that takes the subject-verb-wh rendering
PlainWhQuestion(doc) ==
    /\ classify_sentence(doc, wh_words) = "wh-question"
    /\ With(extract_slots(doc, time_words), LAMBDA s :
           /\ ~Truthy(s.possessive)
           /\ ~(s.original_verb # 0 /\ doc[s.original_verb].lemma = "feel")
           /\ Glosses(doc, s).verb # NoneVal)

\* C28: in a wh-question gloss produced by transform_components, dropping the
\* copula removes only a whole token BE: every other rendered token (subject,
\* verb, wh-word), also one whose text begins with the letters BE, is in the
\* output intact, and the wh-word is the last token before the "?".
C28_OnlyCopulaDropped ==
    (SinglePart /\ ~raised)
        => With(DocOfCall, LAMBDA doc :
               PlainWhQuestion(doc)
                   => /\ split(WithoutMark(gloss)) = RenderedWithoutBE(doc)
                      /\ LastToken(WithoutMark(gloss)) = WhOf(doc))

\* the sentence is one compound question that isl_pipeline splits on "," or
\* " and "
CompoundQuestion(sentence) ==
    With(Stripped(splitOn(sentence, ".")), LAMBDA pieces :
        /\ Len(pieces) = 1
        /\ endswith(pieces[1], "?")
        /\ (contains(pieces[1], ",") \/ contains(pieces[1], " and "))
        /\ Len(PartsOfPiece(pieces[1])) >= 2)

\* a sub-clause is handled as a question: if it goes through the rules it is
\* classified as a question type, and its gloss ends with "?"
HandledAsQuestion(part) ==
    /\ (CleanPart(part) \notin DOMAIN isl_direct_mappings)
          => classify_sentence(Annotate(annotation, part), wh_words)
                 \in {"wh-question", "yes-no-question"}
    /\ With(PartGloss(part, annotation, time_words, wh_words), LAMBDA g :
           ~g.raised /\ endswith(g.out, "?"))

\* C29: when isl_pipeline splits a compound question on "," or " and ", every
\* sub-clause is classified as a question type like the question it came
\* from, so each sub-clause's gloss ends with "?", and the sub-clause glosses
\* are rejoined in their original order.
C29_SubClausesAreQuestions ==
    (pc = "returned" /\ path = "parts" /\ CompoundQuestion(english))
        => With(PartsOf(english), LAMBDA parts :
               /\ \A i \in 1..Len(parts) : HandledAsQuestion(parts[i])
               /\ gloss = join(". ", [i \in 1..Len(parts) |->
                                         PartGloss(parts[i], annotation, time_words, wh_words).out]))

\* the slot key of frame c holds a proper name: the token the proper-name
\* rule took, or a finger-spelled token rejoined letter by letter
HoldsName(c, key) ==
    /\ Truthy(c[key])
    /\ \/ c[key] = c.proper_name
       \/ (HasLower(c[key]) /\ c[key] = title(c[key]))

\* the words of a sentence, punctuation left out
SentenceWords(s) == split(RemovePunct(s))

\* a name that the sentence holds is there in its title-case form
KeepsTitleCase(name, sentence) ==
    InList(lower(name), SentenceWords(lower(sentence)))
        => InList(title(name), SentenceWords(sentence))

\* C30: a proper-name token, also a hyphenated finger-spelled token rejoined
\* letter by letter, is title-cased in the slot frame and keeps that
\* title-case form in the final English sentence returned by gloss_to_english,
\* whether it stands in subject or in object position.
C30_NameTitleCase ==
    (Extracted /\ path = "pipeline")
        => With(ComponentsOfCall, LAMBDA c :
               \A key \in {"subject", "object"} :
                   HoldsName(c, key) => KeepsTitleCase(c[key], english))

====
